---------------------------- MODULE Spec2Model ----------------------------
(***************************************************************************)
(* A model of the Engine Library storage facade of libdjinterop            *)
(* (el_storage.cpp): opening a library directory and detecting its schema  *)
(* version, and the version-dispatched row operations on the Track,        *)
(* MetaData, MetaDataInteger and PerformanceData tables.                   *)
(***************************************************************************)
EXTENDS Integers, Sequences, FiniteSets, TLC

VARIABLES
    disk,       \* the library directory: does it exist, and its two store files
    handle,     \* the el_storage object under construction / constructed
    catalog,    \* the schema catalog of the music store: its tables
    verify,     \* the validation of the catalog: its position and outcome
    keyed,      \* do the tables of the attached stores carry their primary keys
    Track,      \* the rows of music.Track, in rowid order
    MetaData,   \* per track id, the rows of music.MetaData, in rowid order
    MetaDataInteger,    \* the same of music.MetaDataInteger
    PerformanceData,    \* the rows of perfdata.PerformanceData, in rowid order
    ret         \* the last operation of the facade: its arguments and outcome

vars ==
    <<disk, handle, catalog, verify, keyed, Track, MetaData, MetaDataInteger,
      PerformanceData, ret>>
schema == <<catalog, verify>>
tables == <<keyed, Track, MetaData, MetaDataInteger, PerformanceData>>
meta == <<MetaData, MetaDataInteger>>

\* stdx::nullopt and SQL NULL of a scalar; scalars are modelled as strings.
None == "None"

(***************************************************************************)
(* semantic_version and the named versions.                                *)
(***************************************************************************)
SemVer(a, b, c, v) == [maj |-> a, min |-> b, pat |-> c, variant |-> v]

version_1_6_0 == SemVer(1, 6, 0, "")
version_1_7_1 == SemVer(1, 7, 1, "")
version_1_9_1 == SemVer(1, 9, 1, "")
version_1_11_1 == SemVer(1, 11, 1, "")
version_1_13_0 == SemVer(1, 13, 0, "")
version_1_13_1 == SemVer(1, 13, 1, "")
version_1_13_2 == SemVer(1, 13, 2, "")
version_1_15_0 == SemVer(1, 15, 0, "")
version_1_17_0 == SemVer(1, 17, 0, "")
version_1_18_0_fw == SemVer(1, 18, 0, "fw")
version_1_18_0_ep == SemVer(1, 18, 0, "ep")

\* No version: a store without an Information table, a handle that holds none.
NoVersion == SemVer(0, 0, 0, "none")

all_versions ==
    { version_1_6_0, version_1_7_1, version_1_9_1, version_1_11_1,
      version_1_13_0, version_1_13_1, version_1_13_2, version_1_15_0,
      version_1_17_0, version_1_18_0_fw, version_1_18_0_ep }

\* The (major, minor, patch) triple of a version.
Triple(v) == <<v.maj, v.min, v.pat>>

\* operator!= of semantic_version as get_version uses it: on the triple.
VersionNE(a, b) == Triple(a) # Triple(b)

\* operator>= of semantic_version: lexicographic on (major, minor, patch).
VersionGE(a, b) ==
    \/ a.maj > b.maj
    \/ a.maj = b.maj /\ a.min > b.min
    \/ a.maj = b.maj /\ a.min = b.min /\ a.pat >= b.pat

(***************************************************************************)
(* The library on disk.  A store is one SQLite database file (m.db, p.db). *)
(*   exists   the file is there                                            *)
(*   info     the version in the row of its Information table, NoVersion   *)
(*            when the store has no Information table                      *)
(*   others   how many other catalog entries are named 'Information'       *)
(*            (SQLite lets a trigger share the name of a table)            *)
(*   colType  (music) declared type of Track.isExternalTrack, None when    *)
(*            the table or the column is missing                           *)
(***************************************************************************)
StoredVersions ==
    { SemVer(1, 7, 1, ""), SemVer(1, 15, 0, ""), SemVer(1, 18, 0, ""),
      SemVer(1, 8, 0, "") }

ColTypes == {"NUMERIC", "INTEGER", "TEXT"}

EmptyStore == [exists |-> TRUE, info |-> NoVersion, others |-> 0, colType |-> None]
NoStore == [exists |-> FALSE, info |-> NoVersion, others |-> 0, colType |-> None]

MusicStores ==
    {NoStore} \cup
    [exists : {TRUE}, info : StoredVersions \cup {NoVersion}, others : {0, 1},
     colType : ColTypes \cup {None}]

PerfStores ==
    {NoStore} \cup
    [exists : {TRUE}, info : StoredVersions \cup {NoVersion}, others : {0, 1},
     colType : {None}]

NoDir == [dir |-> FALSE, music |-> NoStore, perf |-> NoStore]

Disks == {NoDir} \cup [dir : {TRUE}, music : MusicStores, perf : PerfStores]

(***************************************************************************)
(* get_column_type: the declared type of a column, nullopt when PRAGMA     *)
(* table_info lists no such column.                                        *)
(***************************************************************************)
get_column_type(store) == store.colType

(***************************************************************************)
(* get_version.  The result records the error raised or the version        *)
(* returned, and the queries issued up to that point.                      *)
(***************************************************************************)
Returned(v, q) == [kind |-> "ok", version |-> v, err |-> None, queries |-> q]
Thrown(e, q) == [kind |-> "err", version |-> NoVersion, err |-> e, queries |-> q]

\* COUNT(*) FROM <store>.sqlite_master WHERE name = 'Information'
InfoCount(store) == (IF store.info # NoVersion THEN 1 ELSE 0) + store.others

\* A mutant of get_version: the variant probe ignores the column type.
get_version_no_probe(music, perf) ==
    IF InfoCount(music) + InfoCount(perf) # 2
    THEN Thrown("database_inconsistency", <<"count">>)
    ELSE IF music.info = NoVersion
    THEN Thrown("sqlite_error", <<"count", "music.Information">>)
    ELSE IF Triple(music.info) = <<1, 18, 0>>
    THEN Returned(version_1_18_0_fw,
                  <<"count", "music.Information", "music.Information",
                    "table_info">>)
    ELSE Returned(music.info,
                  <<"count", "music.Information", "music.Information">>)

get_version(music, perf) ==
    LET table_count == InfoCount(music) + InfoCount(perf) IN
    IF table_count # 2
    THEN Thrown("database_inconsistency", <<"count">>)
    ELSE IF music.info = NoVersion
    THEN \* SELECT ... FROM music.Information: no such table
         Thrown("sqlite_error", <<"count", "music.Information">>)
    ELSE
        LET music_version == music.info
            \* the second SELECT reads music.Information as well
            perfdata_version == music.info
            q == <<"count", "music.Information", "music.Information">>
        IN
        IF VersionNE(music_version, perfdata_version)
        THEN Thrown("database_inconsistency", q)
        ELSE IF music_version.maj = 1 /\ music_version.min = 18
                /\ music_version.pat = 0
        THEN LET has_numeric_bools == get_column_type(music) = "NUMERIC" IN
             Returned(IF has_numeric_bools THEN version_1_18_0_ep
                                           ELSE version_1_18_0_fw,
                      Append(q, "table_info"))
        ELSE Returned(music_version, q)

(***************************************************************************)
(* make_attached_db: ATTACH opens each store file read-write, creating an  *)
(* empty file where there is none.                                         *)
(***************************************************************************)
Attach(store) == IF store.exists THEN store ELSE EmptyStore

make_attached_db(d, must_exist) ==
    IF ~d.dir /\ must_exist
    THEN [thrown |-> TRUE, disk |-> d]
    ELSE [thrown |-> FALSE,
          disk |-> [dir |-> TRUE, music |-> Attach(d.music),
                    perf |-> Attach(d.perf)]]

\* schema::make_schema_creator_validator: a descriptor for the versions of
\* the registry, unsupported_database_version for any other.
IsSupported(v) == v \in all_versions

(***************************************************************************)
(* The schema catalog of a store and its validation (schema_validate_      *)
(* utils.hpp).  The catalog is the tables of the store with their columns  *)
(* and indices; sqlite_master and the PRAGMAs are queries on it.           *)
(***************************************************************************)
\* The names of the catalogs of the model, in the order of std::string's
\* operator< (the order of the character values).
Collation ==
    << "A_renamed", "MetaData", "MetaDataInteger", "id",
       "index_MetaData_id", "m_renamed", "sqlite_autoindex_MetaDataInteger_1",
       "sqlite_autoindex_MetaData_1", "text", "type", "value", "z_renamed" >>

\* std::string: o1 < o2 holds when string_rank(o1) < string_rank(o2).
string_rank(s) == CHOOSE i \in 1..Len(Collation) : Collation[i] = s

\* A mutant of std_set: the rows in the order of their insertion.
std_set_unordered(rows, keys) == rows

\* std::set<T> of the rows of a query, inserted in the order of the rows:
\* a row whose key is equivalent to the key of a row before it is not
\* inserted, and the set is iterated in the order of the keys; keys[k] is
\* the key of rows[k].
std_set(rows, keys) ==
    LET kept == {k \in 1..Len(rows) :
                    \A j \in 1..(k - 1) : keys[j] # keys[k]}
        at(p) == CHOOSE k \in kept :
                    Cardinality({j \in kept : keys[j] < keys[k]}) = p - 1
    IN  [p \in 1..Cardinality(kept) |-> rows[at(p)]]

\* operator<(master_list_entry, master_list_entry)
master_list_key(e) == string_rank(e.item_name)
\* operator<(table_info_entry, table_info_entry)
table_info_key(e) == string_rank(e.col_name)
\* operator<(index_list_entry, index_list_entry)
index_list_key(e) == string_rank(e.index_name)
\* operator<(index_info_entry, index_info_entry)
index_info_key(e) == e.col_index_id

\* The tables of the catalog c that are named table_name.
TablesNamed(c, table_name) ==
    SelectSeq(c, LAMBDA t : t.name = table_name)

\* The indices of the catalog c, each with the name of its table.
RECURSIVE IndicesOf(_)
IndicesOf(c) ==
    IF c = <<>> THEN <<>>
    ELSE [k \in 1..Len(Head(c).indices) |->
             [table |-> Head(c).name, index |-> Head(c).indices[k]]]
         \o IndicesOf(Tail(c))

\* master_list::master_list: SELECT name, tbl_name FROM sqlite_master WHERE
\* type = item_type.
master_list(c, db_name, item_type) ==
    LET rows ==
          IF item_type = "table"
          THEN [k \in 1..Len(c) |->
                   [db_name |-> db_name, item_name |-> c[k].name,
                    table_name |-> c[k].name]]
          ELSE [k \in 1..Len(IndicesOf(c)) |->
                   [db_name |-> db_name,
                    item_name |-> IndicesOf(c)[k].index.index_name,
                    table_name |-> IndicesOf(c)[k].table]]
    IN  std_set(rows, [k \in 1..Len(rows) |-> master_list_key(rows[k])])

\* table_info::table_info: PRAGMA table_info(table_name), no row for a
\* table the store does not hold.
table_info(c, db_name, table_name) ==
    LET found == TablesNamed(c, table_name)
        cols == IF found = <<>> THEN <<>> ELSE found[1].cols
        rows == [k \in 1..Len(cols) |->
                   [db_name |-> db_name, table_name |-> table_name,
                    col_id |-> k - 1, col_name |-> cols[k].col_name,
                    col_type |-> cols[k].col_type,
                    nullable |-> cols[k].nullable,
                    default_value |-> cols[k].default_value,
                    part_of_pk |-> cols[k].part_of_pk]]
    IN  std_set(rows, [k \in 1..Len(rows) |-> table_info_key(rows[k])])

\* index_list::index_list: PRAGMA index_list(table_name)
index_list(c, db_name, table_name) ==
    LET found == TablesNamed(c, table_name)
        indices == IF found = <<>> THEN <<>> ELSE found[1].indices
        rows == [k \in 1..Len(indices) |->
                   [db_name |-> db_name, table_name |-> table_name,
                    index_id |-> k - 1,
                    index_name |-> indices[k].index_name,
                    unique |-> indices[k].unique,
                    creation_method |-> indices[k].creation_method,
                    partial_index |-> indices[k].partial_index]]
    IN  std_set(rows, [k \in 1..Len(rows) |-> index_list_key(rows[k])])

\* index_info::index_info: PRAGMA index_info(index_name)
index_info(c, db_name, index_name) ==
    LET found == SelectSeq(IndicesOf(c),
                           LAMBDA i : i.index.index_name = index_name)
        cols == IF found = <<>> THEN <<>> ELSE found[1].index.cols
        rows == [k \in 1..Len(cols) |->
                   [db_name |-> db_name, index_name |-> index_name,
                    col_index_id |-> cols[k].col_index_id,
                    col_table_id |-> cols[k].col_table_id,
                    col_name |-> cols[k].col_name]]
    IN  std_set(rows, [k \in 1..Len(rows) |-> index_info_key(rows[k])])

\* A database_inconsistency and the names its message is built of; no
\* exception.
database_inconsistency(what, names) ==
    [err |-> "database_inconsistency", what |-> what, names |-> names]
NotThrown == [err |-> "none", what |-> "", names |-> {}]

\* validate(master_list::const_iterator iter, end, db_name, item_type,
\* item_name, table_name); iter is a position of the set, end the one past
\* its last.
validate_master_list(cols, iter, db_name, item_type, item_name, table_name) ==
    IF iter > Len(cols)
    THEN database_inconsistency("missing",
                                {item_name, item_type, table_name, db_name})
    ELSE IF cols[iter].item_name # item_name
    THEN database_inconsistency("wrong order",
             {cols[iter].item_name, item_type, cols[iter].table_name,
              db_name, item_name, table_name})
    ELSE NotThrown

\* A mutant of the validation of a column: the default value is not
\* compared.
validate_table_info_no_default(cols, iter, col_name, col_type, nullable, default_value, part_of_pk) ==
    IF iter > Len(cols)
    THEN database_inconsistency("missing", {col_name})
    ELSE IF cols[iter].col_name # col_name
    THEN database_inconsistency("wrong order",
             {cols[iter].col_name, cols[iter].table_name, col_name})
    ELSE IF cols[iter].col_type # col_type
    THEN database_inconsistency("wrong type",
             {col_name, cols[iter].table_name, cols[iter].col_type, col_type})
    ELSE IF cols[iter].nullable # nullable
    THEN database_inconsistency("wrong nullability",
             {col_name, cols[iter].table_name})
    ELSE IF cols[iter].part_of_pk # part_of_pk
    THEN database_inconsistency("wrong PK membership",
             {col_name, cols[iter].table_name})
    ELSE NotThrown

\* validate(table_info::const_iterator iter, end, col_name, col_type,
\* nullable, default_value, part_of_pk)
validate_table_info(cols, iter, col_name, col_type, nullable, default_value, part_of_pk) ==
    IF iter > Len(cols)
    THEN database_inconsistency("missing", {col_name})
    ELSE IF cols[iter].col_name # col_name
    THEN database_inconsistency("wrong order",
             {cols[iter].col_name, cols[iter].table_name, col_name})
    ELSE IF cols[iter].col_type # col_type
    THEN database_inconsistency("wrong type",
             {col_name, cols[iter].table_name, cols[iter].col_type, col_type})
    ELSE IF cols[iter].nullable # nullable
    THEN database_inconsistency("wrong nullability",
             {col_name, cols[iter].table_name})
    ELSE IF cols[iter].default_value # default_value
    THEN database_inconsistency("wrong default value",
             {col_name, cols[iter].table_name, cols[iter].default_value,
              default_value})
    ELSE IF cols[iter].part_of_pk # part_of_pk
    THEN database_inconsistency("wrong PK membership",
             {col_name, cols[iter].table_name})
    ELSE NotThrown

\* validate(index_list::const_iterator iter, end, index_name, unique,
\* creation_method, partial_index)
validate_index_list(cols, iter, index_name, unique, creation_method, partial_index) ==
    IF iter > Len(cols)
    THEN database_inconsistency("missing", {index_name})
    ELSE IF cols[iter].index_name # index_name
    THEN database_inconsistency("wrong order",
             {cols[iter].index_name, cols[iter].table_name, index_name})
    ELSE IF cols[iter].unique # unique
    THEN database_inconsistency("wrong uniqueness",
             {index_name, cols[iter].table_name})
    ELSE IF cols[iter].creation_method # creation_method
    THEN database_inconsistency("wrong creation method",
             {index_name, cols[iter].table_name, cols[iter].creation_method})
    ELSE IF cols[iter].partial_index # partial_index
    THEN database_inconsistency("wrong partiality",
             {index_name, cols[iter].table_name})
    ELSE NotThrown

\* A mutant of the validation of an index column: the table-column id is
\* compared with the rank.
validate_index_info_table_id(cols, iter, col_index_id, col_name) ==
    IF iter > Len(cols)
    THEN database_inconsistency("missing", {col_name})
    ELSE IF cols[iter].col_index_id # col_index_id
    THEN database_inconsistency("wrong rank",
             {col_name, cols[iter].index_name})
    ELSE IF cols[iter].col_table_id # col_index_id
    THEN database_inconsistency("wrong rank",
             {col_name, cols[iter].index_name})
    ELSE IF cols[iter].col_name # col_name
    THEN database_inconsistency("wrong order",
             {cols[iter].col_name, cols[iter].index_name, col_name})
    ELSE NotThrown

\* validate(index_info::const_iterator iter, end, col_index_id, col_name)
validate_index_info(cols, iter, col_index_id, col_name) ==
    IF iter > Len(cols)
    THEN database_inconsistency("missing", {col_name})
    ELSE IF cols[iter].col_index_id # col_index_id
    THEN database_inconsistency("wrong rank",
             {col_name, cols[iter].index_name})
    ELSE IF cols[iter].col_name # col_name
    THEN database_inconsistency("wrong order",
             {cols[iter].col_name, cols[iter].index_name, col_name})
    ELSE NotThrown

\* A mutant of validate_no_more: entries that remain are accepted.
validate_no_more_accepts(cols, iter, validation_type, item) == NotThrown

\* validate_no_more(iter, end, validation_type, item)
validate_no_more(cols, iter, validation_type, item) ==
    IF iter <= Len(cols)
    THEN database_inconsistency("more entries than expected",
                                {validation_type, item})
    ELSE NotThrown

\* A column of a table, as PRAGMA table_info gives it.
Column(col_name, col_type, nullable, default_value, part_of_pk) ==
    [col_name |-> col_name, col_type |-> col_type, nullable |-> nullable,
     default_value |-> default_value, part_of_pk |-> part_of_pk]

\* A column of an index, as PRAGMA index_info gives it.
IndexColumn(col_index_id, col_table_id, col_name) ==
    [col_index_id |-> col_index_id, col_table_id |-> col_table_id,
     col_name |-> col_name]

\* An index of a table, as PRAGMA index_list gives it, and its columns.
Index(index_name, unique, creation_method, partial_index, cols) ==
    [index_name |-> index_name, unique |-> unique,
     creation_method |-> creation_method, partial_index |-> partial_index,
     cols |-> cols]

\* The reference definition: the two metadata tables of the music store as
\* the registry creates them, with the index on MetaData.id and the
\* indices of the primary keys.
Reference ==
    << [name |-> "MetaData",
        cols |-> << Column("id", "INTEGER", 0, "", 1),
                    Column("type", "INTEGER", 0, "", 2),
                    Column("text", "TEXT", 0, "", 0) >>,
        indices |->
          << Index("index_MetaData_id", 0, "c", 0,
                   << IndexColumn(0, 0, "id") >>),
             Index("sqlite_autoindex_MetaData_1", 1, "pk", 0,
                   << IndexColumn(0, 0, "id"), IndexColumn(1, 1, "type") >>)
          >>],
       [name |-> "MetaDataInteger",
        cols |-> << Column("id", "INTEGER", 0, "", 1),
                    Column("type", "INTEGER", 0, "", 2),
                    Column("value", "INTEGER", 0, "", 0) >>,
        indices |->
          << Index("sqlite_autoindex_MetaDataInteger_1", 1, "pk", 0,
                   << IndexColumn(0, 0, "id"), IndexColumn(1, 1, "type") >>)
          >>] >>

\* The catalog c of a store whose tables were made without their primary
\* keys: no column is part of one, and no index is that of one.
WithoutKeys(c) ==
    [t \in 1..Len(c) |->
        [c[t] EXCEPT
           !.cols = [k \in 1..Len(@) |-> [@[k] EXCEPT !.part_of_pk = 0]],
           !.indices = SelectSeq(@, LAMBDA i : i.creation_method # "pk")]]

\* The lists the validation of the reference definition walks, in its
\* order: the tables and the indices of sqlite_master, then of each table
\* its columns, its indices and the columns of each index.
Checks ==
    << [list |-> "master_list", of |-> "table"],
       [list |-> "master_list", of |-> "index"],
       [list |-> "table_info", of |-> "MetaData"],
       [list |-> "index_list", of |-> "MetaData"],
       [list |-> "index_info", of |-> "index_MetaData_id"],
       [list |-> "index_info", of |-> "sqlite_autoindex_MetaData_1"],
       [list |-> "table_info", of |-> "MetaDataInteger"],
       [list |-> "index_list", of |-> "MetaDataInteger"],
       [list |-> "index_info", of |-> "sqlite_autoindex_MetaDataInteger_1"] >>

\* The set a check builds of the catalog c.
ListOf(c, check) ==
    CASE check.list = "master_list" -> master_list(c, "music", check.of)
      [] check.list = "table_info" -> table_info(c, "music", check.of)
      [] check.list = "index_list" -> index_list(c, "music", check.of)
      [] check.list = "index_info" -> index_info(c, "music", check.of)

\* The validate calls of a check: one for each entry of the reference
\* definition, in the order of the set.
Expected(check) == ListOf(Reference, check)

\* The validation has not begun.
NotVerifying == [pc |-> "idle", check |-> 0, iter |-> 0, thrown |-> NotThrown]

(***************************************************************************)
(* The handle.                                                             *)
(***************************************************************************)
NotRun == [kind |-> "none", version |-> NoVersion, err |-> None,
           queries |-> <<>>]

\* detect: what get_version did; before: the directory as the constructor
\* found it.
NoHandle == [state |-> "Uninitialized", version |-> NoVersion, err |-> None,
             detect |-> NotRun, before |-> NoDir]

\* No operation of the facade has run.
NoRet == [op |-> "none"]

\* The track ids the metadata operations are called with.  Every statement
\* on the metadata tables names one id.
MaxId == 1
Ids == 1..MaxId

\* A table without rows.
NoRows == [id \in Ids |-> <<>>]

\* el_storage::el_storage(const std::string& directory)
OpenExisting ==
    /\ handle.state = "Uninitialized"
    /\ UNCHANGED <<schema, tables, ret>>
    /\ LET a == make_attached_db(disk, TRUE) IN
       IF a.thrown
       THEN /\ handle' = [NoHandle EXCEPT !.state = "Failed",
                                          !.err = "database_not_found",
                                          !.before = disk]
            /\ disk' = a.disk
       ELSE LET r == get_version(a.disk.music, a.disk.perf) IN
            /\ disk' = a.disk
            /\ handle' =
                 IF r.kind = "err"
                 THEN [NoHandle EXCEPT !.state = "Failed", !.err = r.err,
                                       !.detect = r, !.before = disk]
                 ELSE IF ~IsSupported(r.version)
                 THEN [NoHandle EXCEPT !.state = "Failed",
                                       !.err = "unsupported_database_version",
                                       !.detect = r, !.before = disk]
                 ELSE [NoHandle EXCEPT !.state = "Open",
                                       !.version = r.version,
                                       !.detect = r, !.before = disk]

InitOpen ==
    /\ disk \in Disks
    /\ handle = [NoHandle EXCEPT !.before = disk]
    /\ catalog = Reference
    /\ verify = NotVerifying
    /\ keyed = TRUE
    /\ Track = <<>>
    /\ MetaData = NoRows
    /\ MetaDataInteger = NoRows
    /\ PerformanceData = <<>>
    /\ ret = NoRet

NextOpen == OpenExisting

SpecOpen == InitOpen /\ [][NextOpen]_vars

(***************************************************************************)
(* Version detection and opening: the claims.                              *)
(***************************************************************************)
Opened == handle.state # "Uninitialized"
Detected == handle.detect.kind # "none"

\* Both stores hold an Information table, and nothing else of that name.
BothInformation(d) ==
    /\ d.music.info # NoVersion /\ d.perf.info # NoVersion
    /\ d.music.others = 0 /\ d.perf.others = 0

\* Both Information rows state (1, 18, 0).
States_1_18_0(d) ==
    /\ BothInformation(d)
    /\ Triple(d.music.info) = <<1, 18, 0>>
    /\ Triple(d.perf.info) = <<1, 18, 0>>

\* C1: get_version raises DatabaseInconsistency whenever the tuple of the
\* music store's Information row differs from the tuple of the performance
\* store's Information row, and returns a version only when they are equal.
C1_DisagreeingVersionsRaise ==
    (Detected /\ BothInformation(disk)) =>
        /\ Triple(disk.music.info) # Triple(disk.perf.info) =>
               /\ handle.detect.kind = "err"
               /\ handle.detect.err = "database_inconsistency"
        /\ handle.detect.kind = "ok" =>
               Triple(disk.music.info) = Triple(disk.perf.info)

\* C2: for a library whose agreed tuple is 1.18.0, a version that detection
\* returns is the firmware variant when Track.isExternalTrack is declared
\* NUMERIC and the desktop variant for every other declared type.
C2_NumericIsFirmware ==
    (Detected /\ States_1_18_0(disk) /\ handle.detect.kind = "ok") =>
        handle.detect.version =
            IF disk.music.colType = "NUMERIC" THEN version_1_18_0_fw
                                              ELSE version_1_18_0_ep

\* C3: of two libraries that both state 1.18.0 and differ only in the
\* declared type of Track.isExternalTrack, NUMERIC in one and INTEGER in the
\* other, detection returns a variant tag for each, and the two tags differ.
\* The library on disk is the one that was opened; the other one is the same
\* library with the column retyped.
C3_TwoVariantsDistinct ==
    (Detected /\ States_1_18_0(disk)
        /\ disk.music.colType \in {"NUMERIC", "INTEGER"}) =>
        LET retyped == [disk.music EXCEPT !.colType =
                           IF disk.music.colType = "NUMERIC"
                           THEN "INTEGER" ELSE "NUMERIC"]
            other == get_version(retyped, disk.perf)
        IN  /\ handle.detect.kind = "ok"
            /\ other.kind = "ok"
            /\ handle.detect.version \in {version_1_18_0_fw, version_1_18_0_ep}
            /\ other.version \in {version_1_18_0_fw, version_1_18_0_ep}
            /\ handle.detect.version # other.version

C3_Witness ==
    /\ handle.state = "Open"
    /\ States_1_18_0(disk)
    /\ disk.music.colType = "NUMERIC"
    /\ handle.version \in {version_1_18_0_fw, version_1_18_0_ep}

\* C4: detection raises DatabaseInconsistency, before it reads any version
\* tuple, unless the music store and the performance store each contain an
\* Information table; a library missing the table in either store never
\* yields a version.
C4_MissingInformationRaises ==
    (Detected /\ (disk.music.info = NoVersion \/ disk.perf.info = NoVersion)) =>
        /\ handle.detect.kind = "err"
        /\ handle.detect.err = "database_inconsistency"
        /\ handle.detect.queries = <<"count">>

\* C5: opening an existing library raises LibraryNotFound when the directory
\* is absent and when the directory exists but m.db or p.db is absent, and in
\* neither case creates a directory or a store file.
C5_MissingFileIsNotFound ==
    (Opened /\ (~handle.before.dir \/ ~handle.before.music.exists
                  \/ ~handle.before.perf.exists)) =>
        /\ handle.state = "Failed"
        /\ handle.err = "database_not_found"
        /\ disk = handle.before

(***************************************************************************)
(* The Track table.                                                        *)
(*                                                                         *)
(* A track value (the parameters of create_track and update_track, the     *)
(* members of track_row) is a record of optional scalars.  A stored row is *)
(* its id (<<n>>, or <<>> for NULL) and its columns.                       *)
(***************************************************************************)
MaxTracks == 2

\* The members of track_row, in declaration order.
TrackFields ==
    << "play_order", "length", "length_calculated", "bpm", "year",
       "relative_path", "filename", "bitrate", "bpm_analyzed", "track_type",
       "is_external_track", "uuid_of_external_database",
       "id_track_in_external_database", "album_art_id", "file_bytes",
       "pdb_import_key", "uri", "is_beatgrid_locked" >>

FieldSet == {TrackFields[i] : i \in 1..Len(TrackFields)}

\* track_row{v1, v2, ...}: aggregate initialisation, member by member; the
\* members past the last value are nullopt.
track_row(values) ==
    [f \in FieldSet |->
        LET i == CHOOSE k \in 1..Len(TrackFields) : TrackFields[k] = f
        IN  IF i <= Len(values) THEN values[i] ELSE None]

\* The columns every version of Track has, in the order the statements name
\* them.
BaseColumns ==
    << "playOrder", "length", "lengthCalculated", "bpm", "year", "path",
       "filename", "bitrate", "bpmAnalyzed", "trackType", "isExternalTrack",
       "uuidOfExternalDatabase", "idTrackInExternalDatabase", "idAlbumArt" >>

Columns_1_18_0 ==
    BaseColumns \o <<"fileBytes", "pdbImportKey", "uri", "isBeatGridLocked">>
Columns_1_15_0 == BaseColumns \o <<"fileBytes", "pdbImportKey", "uri">>
Columns_1_7_1 == BaseColumns \o <<"pdbImportKey">>

AllColumns == {Columns_1_18_0[i] : i \in 1..Len(Columns_1_18_0)}

\* The values every statement binds first, in the order it binds them.
BaseArgs(x) ==
    << x.play_order, x.length, x.length_calculated, x.bpm, x.year,
       x.relative_path, x.filename, x.bitrate, x.bpm_analyzed, x.track_type,
       x.is_external_track, x.uuid_of_external_database,
       x.id_track_in_external_database, x.album_art_id >>

\* A statement: its column list and the values bound to its placeholders.
Stmt(cols, vals) == [cols |-> cols, vals |-> vals]

\* The columns of a row after the statement has assigned st.vals[i] to
\* st.cols[i]; the other columns keep what they hold in old.
Assign(st, old) ==
    [c \in AllColumns |->
        IF \E i \in 1..Len(st.cols) : st.cols[i] = c
        THEN st.vals[CHOOSE i \in 1..Len(st.cols) : st.cols[i] = c]
        ELSE old[c]]

NullColumns == [c \in AllColumns |-> None]

\* The values of the listed columns of a row, in the order listed.
Select(cols, row) == [i \in 1..Len(cols) |-> row.col[cols[i]]]

\* A mutant of create_track_stmt: the 1.7.1 shape leaves pdbImportKey out.
create_track_stmt_no_import_key(v, x) ==
    IF VersionGE(v, version_1_18_0_fw)
    THEN Stmt(Columns_1_18_0,
              BaseArgs(x) \o <<x.file_bytes, x.pdb_import_key, x.uri,
                               x.is_beatgrid_locked>>)
    ELSE IF VersionGE(v, version_1_15_0)
    THEN Stmt(Columns_1_15_0,
              BaseArgs(x) \o <<x.file_bytes, x.pdb_import_key, x.uri>>)
    ELSE Stmt(BaseColumns, BaseArgs(x))

\* The column list of the INSERT INTO Track that create_track issues for
\* version v, and the values it binds, in order.
\* A mutant of create_track: the 1.18.0 statement for the firmware variant
\* only.
create_track_stmt_fw_only(v, x) ==
    IF v = version_1_18_0_fw
    THEN Stmt(Columns_1_18_0,
              BaseArgs(x) \o <<x.file_bytes, x.pdb_import_key, x.uri,
                               x.is_beatgrid_locked>>)
    ELSE Stmt(Columns_1_15_0,
              BaseArgs(x) \o <<x.file_bytes, x.pdb_import_key, x.uri>>)

create_track_stmt(v, x) ==
    IF VersionGE(v, version_1_18_0_fw)
    THEN Stmt(BaseColumns
                \o <<"fileBytes", "pdbImportKey", "uri", "isBeatGridLocked">>,
              BaseArgs(x) \o <<x.file_bytes, x.pdb_import_key, x.uri,
                               x.is_beatgrid_locked>>)
    ELSE IF VersionGE(v, version_1_15_0)
    THEN Stmt(BaseColumns \o <<"fileBytes", "pdbImportKey", "uri">>,
              BaseArgs(x) \o <<x.file_bytes, x.pdb_import_key, x.uri>>)
    ELSE IF VersionGE(v, version_1_7_1)
    THEN Stmt(BaseColumns \o <<"pdbImportKey">>,
              BaseArgs(x) \o <<x.pdb_import_key>>)
    ELSE Stmt(BaseColumns, BaseArgs(x))

\* A mutant of update_track_stmt: a parameter that is nullopt is not bound,
\* and its column is left out of the SET list.
update_track_stmt_skip_null(v, y) ==
    LET cols == IF VersionGE(v, version_1_18_0_fw) THEN Columns_1_18_0
                ELSE IF VersionGE(v, version_1_15_0) THEN Columns_1_15_0
                ELSE IF VersionGE(v, version_1_7_1) THEN Columns_1_7_1
                ELSE BaseColumns
        vals == BaseArgs(y) \o
                (IF VersionGE(v, version_1_15_0)
                 THEN <<y.file_bytes, y.pdb_import_key, y.uri,
                        y.is_beatgrid_locked>>
                 ELSE <<y.pdb_import_key>>)
        keep == {i \in 1..Len(cols) : vals[i] # None}
        Pick(seq) == LET F[i \in 0..Len(cols)] ==
                            IF i = 0 THEN <<>>
                            ELSE IF i \in keep THEN Append(F[i-1], seq[i])
                            ELSE F[i-1]
                     IN F[Len(cols)]
    IN Stmt(Pick(cols), Pick(vals))

\* The SET list of the UPDATE Track that update_track issues for version v,
\* and the values it binds, in order (the id of WHERE id = ? comes last).
update_track_stmt(v, y) ==
    IF VersionGE(v, version_1_18_0_fw)
    THEN Stmt(BaseColumns
                \o <<"fileBytes", "pdbImportKey", "uri", "isBeatGridLocked">>,
              BaseArgs(y) \o <<y.file_bytes, y.pdb_import_key, y.uri,
                               y.is_beatgrid_locked>>)
    ELSE IF VersionGE(v, version_1_15_0)
    THEN Stmt(BaseColumns \o <<"fileBytes", "pdbImportKey", "uri">>,
              BaseArgs(y) \o <<y.file_bytes, y.pdb_import_key, y.uri>>)
    ELSE IF VersionGE(v, version_1_7_1)
    THEN Stmt(BaseColumns \o <<"pdbImportKey">>,
              BaseArgs(y) \o <<y.pdb_import_key>>)
    ELSE Stmt(BaseColumns, BaseArgs(y))

\* An outcome of a get: a value returned or an exception thrown.
Ok(value) == [kind |-> "ok", err |-> None, value |-> value]
Err(e, value) == [kind |-> "err", err |-> e, value |-> value]

NoTrack == [f \in FieldSet |-> None]

\* The rows of Track with the given id (WHERE id = ?), in rowid order.
TrackRows(id) == SelectSeq(Track, LAMBDA r : r.id = <<id>>)

\* What the row callback of get_track makes of a row, for version v.
read_track_row(v, row) ==
    IF VersionGE(v, version_1_18_0_fw)
    THEN track_row(Select(Columns_1_18_0, row))
    ELSE IF VersionGE(v, version_1_15_0)
    THEN track_row(Select(Columns_1_15_0, row))
    ELSE IF VersionGE(v, version_1_7_1)
    THEN track_row(Select(BaseColumns, row)
                   \o <<None, row.col["pdbImportKey"]>>)
    ELSE track_row(Select(BaseColumns, row))

\* A mutant of get_track: a second row with the id replaces the first.
get_track_last_row(id) ==
    LET rows == TrackRows(id) IN
    IF Len(rows) = 0 THEN Err("track_deleted", NoTrack)
    ELSE Ok(read_track_row(handle.version, rows[Len(rows)]))

\* el_storage::get_track: the callback runs once per row and throws on the
\* second one; no row at all is track_deleted.
get_track(id) ==
    LET rows == TrackRows(id) IN
    IF Len(rows) > 1 THEN Err("track_database_inconsistency", NoTrack)
    ELSE IF Len(rows) = 0 THEN Err("track_deleted", NoTrack)
    ELSE Ok(read_track_row(handle.version, rows[1]))

\* el_storage::create_track.  The new row gets the next rowid, which is its
\* id where id is the table's INTEGER PRIMARY KEY and which leaves id NULL
\* where it is not; last_insert_rowid() is returned.
CreateTrack(x) ==
    /\ handle.state = "Open"
    /\ Len(Track) < MaxTracks
    /\ LET rowid == Len(Track) + 1
           row == [id |-> IF keyed THEN <<rowid>> ELSE <<>>,
                   col |-> Assign(create_track_stmt(handle.version, x),
                                  NullColumns)]
       IN /\ Track' = Append(Track, row)
          /\ ret' = [op |-> "create_track", id |-> rowid, arg |-> x]
    /\ UNCHANGED <<disk, handle, schema, keyed, meta, PerformanceData>>

\* A mutant of update_track: a row is inserted for an id that has none.
UpdateTrack_upsert(id, y) ==
    /\ handle.state = "Open"
    /\ Track' = IF \E i \in 1..Len(Track) : Track[i].id = <<id>>
                THEN [i \in 1..Len(Track) |->
                        IF Track[i].id = <<id>>
                        THEN [Track[i] EXCEPT !.col =
                                Assign(update_track_stmt(handle.version, y), @)]
                        ELSE Track[i]]
                ELSE Append(Track,
                            [id |-> <<id>>,
                             col |-> Assign(update_track_stmt(handle.version, y),
                                            NullColumns)])
    /\ ret' = [op |-> "update_track", id |-> id, arg |-> y,
               old |-> SelectSeq(Track, LAMBDA r : r.id = <<id>>)]
    /\ UNCHANGED <<disk, handle, schema, keyed, meta, PerformanceData>>

\* el_storage::update_track: every row WHERE id = ? is assigned the columns
\* of the statement.
UpdateTrack(id, y) ==
    /\ handle.state = "Open"
    /\ Track' = [i \in 1..Len(Track) |->
                    IF Track[i].id = <<id>>
                    THEN [Track[i] EXCEPT !.col =
                            Assign(update_track_stmt(handle.version, y), @)]
                    ELSE Track[i]]
    /\ ret' = [op |-> "update_track", id |-> id, arg |-> y,
               old |-> TrackRows(id)]
    /\ UNCHANGED <<disk, handle, schema, keyed, meta, PerformanceData>>

GetTrack(id) ==
    /\ handle.state = "Open"
    /\ ret' = [op |-> "get_track", id |-> id, out |-> get_track(id)]
    /\ UNCHANGED <<disk, handle, schema, tables>>

(***************************************************************************)
(* Track values the operations are called with.                            *)
(***************************************************************************)
T_s3 ==
    [NoTrack EXCEPT !.play_order = "1", !.length = "240", !.bpm = "128",
                    !.year = "2020", !.relative_path = "/a/b.mp3",
                    !.filename = "b.mp3", !.bitrate = "320000",
                    !.bpm_analyzed = "127.96"]

T_s3_241 == [T_s3 EXCEPT !.length = "241"]

\* Every field set, each to a value no other field has.
T_full ==
    [play_order |-> "2", length |-> "300", length_calculated |-> "301",
     bpm |-> "120", year |-> "1999", relative_path |-> "../c/d.flac",
     filename |-> "d.flac", bitrate |-> "1411", bpm_analyzed |-> "119.5",
     track_type |-> "1", is_external_track |-> "0",
     uuid_of_external_database |-> "e5f6", id_track_in_external_database |-> "77",
     album_art_id |-> "3", file_bytes |-> "123456", pdb_import_key |-> "9",
     uri |-> "file:///c/d.flac", is_beatgrid_locked |-> "4"]

\* Only the fields that later versions added.
T_added ==
    [NoTrack EXCEPT !.file_bytes = "1000", !.pdb_import_key = "10",
                    !.uri = "file:///x", !.is_beatgrid_locked = "11"]

\* T_s3 with a beatgrid lock and an import key, no file size and no URI.
T_locked == [T_s3 EXCEPT !.is_beatgrid_locked = "12", !.pdb_import_key = "0"]

TrackInputs == {NoTrack, T_s3, T_s3_241, T_full, T_added, T_locked}

TrackIds == 1..(MaxTracks + 1)

(***************************************************************************)
(* A library created at one of the registry's versions: its tables are     *)
(* empty and carry the keys of the schema.                                 *)
(***************************************************************************)
Created(v) == [NoHandle EXCEPT !.state = "Open", !.version = v]

InitTrack ==
    /\ disk = NoDir
    /\ handle \in {Created(v) : v \in all_versions}
    /\ catalog = Reference
    /\ verify = NotVerifying
    /\ keyed = TRUE
    /\ Track = <<>>
    /\ MetaData = NoRows
    /\ MetaDataInteger = NoRows
    /\ PerformanceData = <<>>
    /\ ret = NoRet

NextTrack ==
    \/ \E x \in TrackInputs : CreateTrack(x)
    \/ \E id \in TrackIds, y \in TrackInputs : UpdateTrack(id, y)
    \/ \E id \in TrackIds : GetTrack(id)

SpecTrack == InitTrack /\ [][NextTrack]_vars

(***************************************************************************)
(* A library opened from a directory.  The constructor does not validate   *)
(* it: Track may have been made without its primary key and hold several   *)
(* rows with one id.                                                       *)
(***************************************************************************)
StoredInputs == {T_s3, T_full}

StoredRows(v, ids) ==
    { [id |-> <<i>>, col |-> Assign(create_track_stmt(v, x), NullColumns)] :
        i \in ids, x \in StoredInputs }

StoredTracks(v, k) ==
    IF k
    THEN {<<>>} \cup { <<r>> : r \in StoredRows(v, {1}) }
    ELSE UNION { [1..n -> StoredRows(v, 1..MaxTracks)] : n \in 0..MaxTracks }

InitExisting ==
    /\ disk = NoDir
    /\ handle \in {Created(v) : v \in all_versions}
    /\ keyed \in BOOLEAN
    /\ catalog = IF keyed THEN Reference ELSE WithoutKeys(Reference)
    /\ verify = NotVerifying
    /\ Track \in StoredTracks(handle.version, keyed)
    /\ MetaData = NoRows
    /\ MetaDataInteger = NoRows
    /\ PerformanceData = <<>>
    /\ ret = NoRet

NextExisting ==
    \/ \E x \in StoredInputs : CreateTrack(x)
    \/ \E id \in TrackIds, y \in StoredInputs : UpdateTrack(id, y)
    \/ \E id \in TrackIds : GetTrack(id)

SpecExisting == InitExisting /\ [][NextExisting]_vars

(***************************************************************************)
(* The Track table: the claims.                                            *)
(***************************************************************************)
\* The column that holds each member of track_row.
ColumnOf ==
    [play_order |-> "playOrder", length |-> "length",
     length_calculated |-> "lengthCalculated", bpm |-> "bpm", year |-> "year",
     relative_path |-> "path", filename |-> "filename", bitrate |-> "bitrate",
     bpm_analyzed |-> "bpmAnalyzed", track_type |-> "trackType",
     is_external_track |-> "isExternalTrack",
     uuid_of_external_database |-> "uuidOfExternalDatabase",
     id_track_in_external_database |-> "idTrackInExternalDatabase",
     album_art_id |-> "idAlbumArt", file_bytes |-> "fileBytes",
     pdb_import_key |-> "pdbImportKey", uri |-> "uri",
     is_beatgrid_locked |-> "isBeatGridLocked"]

\* The fields of a stored row, each read from its column.
FieldsOfRow(row) == [f \in FieldSet |-> row.col[ColumnOf[f]]]

\* Is version v at or past (a, b, c), on the (major, minor, patch) triple.
AtLeast(v, a, b, c) ==
    \/ v.maj > a
    \/ v.maj = a /\ v.min > b
    \/ v.maj = a /\ v.min = b /\ v.pat >= c

\* The fields that exist in version v: pdb-import-key from 1.7.1, file-bytes
\* and URI from 1.15.0, is-beatgrid-locked from 1.18.0.
FieldsOfVersion(v) ==
    (FieldSet \ {"pdb_import_key", "file_bytes", "uri", "is_beatgrid_locked"})
    \cup (IF AtLeast(v, 1, 7, 1) THEN {"pdb_import_key"} ELSE {})
    \cup (IF AtLeast(v, 1, 15, 0) THEN {"file_bytes", "uri"} ELSE {})
    \cup (IF AtLeast(v, 1, 18, 0) THEN {"is_beatgrid_locked"} ELSE {})

\* x restricted to the fields of version v; the others are absent.
Project(v, x) ==
    [f \in FieldSet |-> IF f \in FieldsOfVersion(v) THEN x[f] ELSE None]

\* C6: for every schema version, get_track(id) raises TrackDeleted when
\* Track holds no row with that id, TrackDatabaseInconsistency when it holds
\* more than one, and returns the fields of the row when it holds exactly
\* one.
C6_GetTrackByRowCount ==
    ret.op = "get_track" =>
        LET rows == TrackRows(ret.id) IN
        /\ Len(rows) = 0 =>
               ret.out.kind = "err" /\ ret.out.err = "track_deleted"
        /\ Len(rows) > 1 =>
               /\ ret.out.kind = "err"
               /\ ret.out.err = "track_database_inconsistency"
        /\ Len(rows) = 1 =>
               ret.out.kind = "ok" /\ ret.out.value = FieldsOfRow(rows[1])

C6_Witness ==
    /\ ret.op = "get_track"
    /\ Len(TrackRows(ret.id)) > 1
    /\ ret.out.err = "track_database_inconsistency"
    /\ \E id \in TrackIds : Len(TrackRows(id)) = 0

\* C7: for every schema version V and track value x,
\* get_track(create_track(x)) is x restricted to the fields that exist in V;
\* a field that a newer version introduced reads back absent whatever value
\* create_track was given.
C7_CreateThenGet ==
    ret.op = "create_track" =>
        get_track(ret.id) = Ok(Project(handle.version, ret.arg))

C7_Witness ==
    /\ ret.op = "create_track"
    /\ handle.version = version_1_7_1
    /\ ret.arg = T_full
    /\ get_track(ret.id).kind = "ok"
    /\ get_track(ret.id).value.pdb_import_key = T_full.pdb_import_key
    /\ get_track(ret.id).value.uri = None

\* C8: after update_track(id, y) on an existing track, get_track(id) is y
\* restricted to the fields of the active version: every such field is
\* overwritten, also with absent, whatever the row held before.
C8_UpdateThenGet ==
    (ret.op = "update_track" /\ Len(ret.old) = 1) =>
        get_track(ret.id) = Ok(Project(handle.version, ret.arg))

C8_Witness ==
    /\ ret.op = "update_track"
    /\ Len(ret.old) = 1
    /\ ret.old[1].col["length"] # None
    /\ ret.old[1].col["pdbImportKey"] # None
    /\ ret.arg = NoTrack
    /\ get_track(ret.id) = Ok(NoTrack)

(***************************************************************************)
(* MetaData and MetaDataInteger.  A row is its type and its text or value; *)
(* a column that may be NULL holds <<>> for NULL and <<v>> for v, and an   *)
(* optional argument is passed the same way.  The rows of one track id are *)
(* kept in rowid order; every statement of the code names one id.          *)
(***************************************************************************)
Null == <<>>

\* A mutant of Replace: the row is inserted and none is deleted.
Replace_insert_only(rows, r) == Append(rows, r)

\* An INSERT OR REPLACE of one row: where (id, type) is the primary key of
\* the table, the row that holds the key is deleted before the new one is
\* inserted.
Replace(rows, r) ==
    IF keyed
    THEN Append(SelectSeq(rows, LAMBDA q : q.type # r.type), r)
    ELSE Append(rows, r)

\* The rows of one statement, in the order of its VALUES list.
RECURSIVE ReplaceAll(_, _)
ReplaceAll(rows, new) ==
    IF new = <<>> THEN rows
    ELSE ReplaceAll(Replace(rows, Head(new)), Tail(new))

\* A mutant of the per-slot write: an empty text where there is no content.
set_meta_data_row_empty_text(type, content) ==
    IF content # Null
    THEN [type |-> type, text |-> <<content[1]>>]
    ELSE [type |-> type, text |-> <<"">>]

\* el_storage::set_meta_data(id, type, optional): the std::string overload
\* when there is a content, a NULL text when there is none.
set_meta_data_row(type, content) ==
    IF content # Null
    THEN [type |-> type, text |-> <<content[1]>>]
    ELSE [type |-> type, text |-> Null]

\* A mutant of the bulk write: the rows of the unknown slots are left out.
set_meta_data_rows_named_only(m) ==
    << [type |-> "title", text |-> m.title],
       [type |-> "artist", text |-> m.artist],
       [type |-> "album", text |-> m.album],
       [type |-> "genre", text |-> m.genre],
       [type |-> "comment", text |-> m.comment],
       [type |-> "publisher", text |-> m.publisher],
       [type |-> "composer", text |-> m.composer],
       [type |-> "duration_mm_ss", text |-> m.duration_mm_ss],
       [type |-> "ever_played", text |-> m.ever_played],
       [type |-> "file_extension", text |-> m.file_extension] >>

\* el_storage::set_meta_data(id, title, ..., file_extension): the rows of
\* the statement.
set_meta_data_rows(m) ==
    << [type |-> "title", text |-> m.title],
       [type |-> "artist", text |-> m.artist],
       [type |-> "album", text |-> m.album],
       [type |-> "genre", text |-> m.genre],
       [type |-> "comment", text |-> m.comment],
       [type |-> "publisher", text |-> m.publisher],
       [type |-> "composer", text |-> m.composer],
       [type |-> "unknown_8", text |-> Null],
       [type |-> "unknown_9", text |-> Null],
       [type |-> "duration_mm_ss", text |-> m.duration_mm_ss],
       [type |-> "ever_played", text |-> m.ever_played],
       [type |-> "file_extension", text |-> m.file_extension],
       [type |-> "unknown_15", text |-> <<"1">>],
       [type |-> "unknown_16", text |-> <<"1">>],
       [type |-> "unknown_17", text |-> Null] >>

\* A mutant of the bulk read: the rows with a NULL text are returned too.
get_all_meta_data_with_null(id) ==
    LET rows == MetaData[id] IN
    [i \in 1..Len(rows) |->
        [id |-> id, type |-> rows[i].type, text |-> rows[i].text]]

\* A mutant of the bulk read: the rows of the next id are returned too.
get_all_meta_data_next_id(id) ==
    LET rows == SelectSeq(MetaData[id]
                            \o (IF id + 1 \in DOMAIN MetaData
                                THEN MetaData[id + 1] ELSE <<>>),
                          LAMBDA r : r.text # Null) IN
    [i \in 1..Len(rows) |->
        [id |-> id, type |-> rows[i].type, text |-> rows[i].text]]

\* el_storage::get_all_meta_data: WHERE id = ? AND text IS NOT NULL.
get_all_meta_data(id) ==
    LET rows == SelectSeq(MetaData[id], LAMBDA r : r.text # Null) IN
    [i \in 1..Len(rows) |->
        [id |-> id, type |-> rows[i].type, text |-> rows[i].text]]

\* el_storage::get_meta_data: the callback runs once per row that is not
\* NULL and throws on the second one.
get_meta_data(id, type) ==
    LET rows == SelectSeq(MetaData[id],
                          LAMBDA r : r.type = type /\ r.text # Null) IN
    IF Len(rows) > 1 THEN Err("track_database_inconsistency", Null)
    ELSE IF Len(rows) = 0 THEN Ok(Null)
    ELSE Ok(rows[1].text)

\* el_storage::set_meta_data_integer(id, type, optional)
set_meta_data_integer_row(type, content) == [type |-> type, value |-> content]

\* metadata_int_type: the number of each slot, as the note on the order of
\* the bulk statement and the names of the unknown slots give them.
metadata_int_type ==
    [last_played_ts |-> 1, last_modified_ts |-> 2, last_accessed_ts |-> 3,
     musical_key |-> 4, rating |-> 5, unknown_6 |-> 6, unknown_7 |-> 7,
     unknown_8 |-> 8, unknown_9 |-> 9, last_play_hash |-> 10,
     unknown_11 |-> 11, unknown_12 |-> 12]

\* A mutant of the bulk integer write: the rows in the order of their slot
\* numbers.
set_meta_data_integer_rows_ascending(n) ==
    << [type |-> "last_played_ts", value |-> n.last_played_timestamp],
       [type |-> "last_modified_ts", value |-> n.last_modified_timestamp],
       [type |-> "last_accessed_ts", value |-> n.last_accessed_timestamp],
       [type |-> "musical_key", value |-> n.musical_key],
       [type |-> "rating", value |-> n.rating],
       [type |-> "unknown_6", value |-> Null],
       [type |-> "unknown_7", value |-> Null],
       [type |-> "unknown_8", value |-> Null],
       [type |-> "unknown_9", value |-> Null],
       [type |-> "last_play_hash", value |-> n.last_play_hash],
       [type |-> "unknown_11", value |-> <<1>>],
       [type |-> "unknown_12", value |-> <<1>>] >>

\* el_storage::set_meta_data_integer(id, musical_key, ..., last_play_hash):
\* the rows of the statement.
set_meta_data_integer_rows(n) ==
    << [type |-> "musical_key", value |-> n.musical_key],
       [type |-> "rating", value |-> n.rating],
       [type |-> "last_played_ts", value |-> n.last_played_timestamp],
       [type |-> "last_modified_ts", value |-> n.last_modified_timestamp],
       [type |-> "last_accessed_ts", value |-> n.last_accessed_timestamp],
       [type |-> "unknown_6", value |-> Null],
       [type |-> "unknown_8", value |-> Null],
       [type |-> "unknown_7", value |-> Null],
       [type |-> "unknown_9", value |-> Null],
       [type |-> "last_play_hash", value |-> n.last_play_hash],
       [type |-> "unknown_11", value |-> <<1>>],
       [type |-> "unknown_12", value |-> <<1>>] >>

\* el_storage::get_all_meta_data_integer: WHERE id = ? AND value IS NOT NULL.
get_all_meta_data_integer(id) ==
    LET rows == SelectSeq(MetaDataInteger[id], LAMBDA r : r.value # Null) IN
    [i \in 1..Len(rows) |->
        [id |-> id, type |-> rows[i].type, value |-> rows[i].value]]

\* el_storage::get_meta_data_integer
get_meta_data_integer(id, type) ==
    LET rows == SelectSeq(MetaDataInteger[id],
                          LAMBDA r : r.type = type /\ r.value # Null) IN
    IF Len(rows) > 1 THEN Err("track_database_inconsistency", Null)
    ELSE IF Len(rows) = 0 THEN Ok(Null)
    ELSE Ok(rows[1].value)

(***************************************************************************)
(* The metadata operations.                                                *)
(***************************************************************************)
SetMetaData(id, type, content) ==
    /\ handle.state = "Open"
    /\ MetaData' = [MetaData EXCEPT
                      ![id] = Replace(@, set_meta_data_row(type, content))]
    /\ ret' = [op |-> "set_meta_data", id |-> id, type |-> type,
               arg |-> content]
    /\ UNCHANGED <<disk, handle, schema, keyed, Track, MetaDataInteger, PerformanceData>>

SetMetaDataBulk(id, m) ==
    /\ handle.state = "Open"
    /\ MetaData' = [MetaData EXCEPT
                      ![id] = ReplaceAll(@, set_meta_data_rows(m))]
    /\ ret' = [op |-> "set_meta_data_bulk", id |-> id, arg |-> m,
               old |-> MetaData[id]]
    /\ UNCHANGED <<disk, handle, schema, keyed, Track, MetaDataInteger, PerformanceData>>

GetAllMetaData(id) ==
    /\ handle.state = "Open"
    /\ ret' = [op |-> "get_all_meta_data", id |-> id,
               out |-> get_all_meta_data(id)]
    /\ UNCHANGED <<disk, handle, schema, tables>>

GetMetaData(id, type) ==
    /\ handle.state = "Open"
    /\ ret' = [op |-> "get_meta_data", id |-> id, type |-> type,
               out |-> get_meta_data(id, type)]
    /\ UNCHANGED <<disk, handle, schema, tables>>

SetMetaDataInteger(id, type, content) ==
    /\ handle.state = "Open"
    /\ MetaDataInteger' =
         [MetaDataInteger EXCEPT
            ![id] = Replace(@, set_meta_data_integer_row(type, content))]
    /\ ret' = [op |-> "set_meta_data_integer", id |-> id, type |-> type,
               arg |-> content]
    /\ UNCHANGED <<disk, handle, schema, keyed, Track, MetaData, PerformanceData>>

SetMetaDataIntegerBulk(id, n) ==
    /\ handle.state = "Open"
    /\ MetaDataInteger' =
         [MetaDataInteger EXCEPT
            ![id] = ReplaceAll(@, set_meta_data_integer_rows(n))]
    /\ ret' = [op |-> "set_meta_data_integer_bulk", id |-> id, arg |-> n,
               old |-> MetaDataInteger[id]]
    /\ UNCHANGED <<disk, handle, schema, keyed, Track, MetaData, PerformanceData>>

GetAllMetaDataInteger(id) ==
    /\ handle.state = "Open"
    /\ ret' = [op |-> "get_all_meta_data_integer", id |-> id,
               out |-> get_all_meta_data_integer(id)]
    /\ UNCHANGED <<disk, handle, schema, tables>>

GetMetaDataInteger(id, type) ==
    /\ handle.state = "Open"
    /\ ret' = [op |-> "get_meta_data_integer", id |-> id, type |-> type,
               out |-> get_meta_data_integer(id, type)]
    /\ UNCHANGED <<disk, handle, schema, tables>>

(***************************************************************************)
(* Metadata the operations are called with.                                *)
(***************************************************************************)
NamedSlots ==
    {"title", "artist", "album", "genre", "comment", "publisher", "composer",
     "duration_mm_ss", "ever_played", "file_extension"}

NoMeta == [f \in NamedSlots |-> Null]

\* Title and artist, the others absent.
M_s4 == [NoMeta EXCEPT !.title = <<"T">>, !.artist = <<"A">>]

\* Every named value given.
M_full ==
    [title |-> <<"t">>, artist |-> <<"a">>, album |-> <<"b">>,
     genre |-> <<"g">>, comment |-> <<"c">>, publisher |-> <<"p">>,
     composer |-> <<"o">>, duration_mm_ss |-> <<"04:00">>,
     ever_played |-> <<"1">>, file_extension |-> <<"mp3">>]

MetaInputs == {NoMeta, M_s4, M_full}

\* The slots the per-slot operations are called with, and the contents.
SlotTypes == {"unknown_15"}
SlotContents == {<<"x">>}

NamedIntegerSlots ==
    {"musical_key", "rating", "last_played_timestamp",
     "last_modified_timestamp", "last_accessed_timestamp", "last_play_hash"}

NoMetaInteger == [f \in NamedIntegerSlots |-> Null]

N_rated == [NoMetaInteger EXCEPT !.rating = <<60>>, !.musical_key = <<5>>]

N_full ==
    [musical_key |-> <<1>>, rating |-> <<100>>,
     last_played_timestamp |-> <<1500000000>>,
     last_modified_timestamp |-> <<1500000001>>,
     last_accessed_timestamp |-> <<1500000002>>,
     last_play_hash |-> <<0>>]

MetaIntegerInputs == {NoMetaInteger, N_rated, N_full}

IntegerSlotTypes == {"unknown_11"}
IntegerSlotContents == {<<7>>}

(***************************************************************************)
(* The metadata of a library created at a version of the registry.         *)
(***************************************************************************)
InitMeta ==
    /\ disk = NoDir
    /\ handle = Created(version_1_18_0_fw)
    /\ catalog = Reference
    /\ verify = NotVerifying
    /\ keyed = TRUE
    /\ Track = <<>>
    /\ MetaData = NoRows
    /\ MetaDataInteger = NoRows
    /\ PerformanceData = <<>>
    /\ ret = NoRet

NextMeta ==
    \/ \E id \in Ids, type \in SlotTypes, content \in SlotContents :
         SetMetaData(id, type, content)
    \/ \E id \in Ids, m \in MetaInputs : SetMetaDataBulk(id, m)
    \/ \E id \in Ids : GetAllMetaData(id)
    \/ \E id \in Ids, type \in SlotTypes : GetMetaData(id, type)
    \/ \E id \in Ids, type \in IntegerSlotTypes,
          content \in IntegerSlotContents :
         SetMetaDataInteger(id, type, content)
    \/ \E id \in Ids, n \in MetaIntegerInputs : SetMetaDataIntegerBulk(id, n)
    \/ \E id \in Ids : GetAllMetaDataInteger(id)
    \/ \E id \in Ids, type \in IntegerSlotTypes : GetMetaDataInteger(id, type)

SpecMeta == InitMeta /\ [][NextMeta]_vars

(***************************************************************************)
(* The metadata tables: the claims.                                        *)
(***************************************************************************)
\* The rows of one slot.
SlotRows(rows, type) == SelectSeq(rows, LAMBDA r : r.type = type)

\* The types of the rows of a sequence.
TypesOf(rows) == {rows[k].type : k \in 1..Len(rows)}

\* The slot of MetaDataInteger that holds each named value.
IntegerSlotOf ==
    [musical_key |-> "musical_key", rating |-> "rating",
     last_played_timestamp |-> "last_played_ts",
     last_modified_timestamp |-> "last_modified_ts",
     last_accessed_timestamp |-> "last_accessed_ts",
     last_play_hash |-> "last_play_hash"]

\* The named values that are given.
Given(m) == {f \in DOMAIN m : m[f] # Null}

\* The tables hold one row per slot for the id: 15 and 12.
C9_Stored(i) ==
    /\ Len(MetaData[i]) = 15
    /\ Cardinality(TypesOf(MetaData[i])) = 15
    /\ Len(MetaDataInteger[i]) = 12
    /\ Cardinality(TypesOf(MetaDataInteger[i])) = 12

\* The bulk reads return the rows that are not null: the named values that
\* were given and the two literals.
C9_Read(i, m, n) ==
    LET out == get_all_meta_data(i)
        outInteger == get_all_meta_data_integer(i)
    IN /\ Len(out) = 2 + Cardinality(Given(m))
       /\ {out[k] : k \in 1..Len(out)} =
              {[id |-> i, type |-> f, text |-> m[f]] : f \in Given(m)}
              \cup {[id |-> i, type |-> t, text |-> <<"1">>] :
                      t \in {"unknown_15", "unknown_16"}}
       /\ Len(outInteger) = 2 + Cardinality(Given(n))
       /\ {outInteger[k] : k \in 1..Len(outInteger)} =
              {[id |-> i, type |-> IntegerSlotOf[f], value |-> n[f]] :
                 f \in Given(n)}
              \cup {[id |-> i, type |-> t, value |-> <<1>>] :
                      t \in {"unknown_11", "unknown_12"}}

\* A named slot that was written absent is stored as a row with a null, is
\* no row of the bulk read and reads absent by itself.
C9_Absent(i, m, n) ==
    /\ \A f \in NamedSlots \ Given(m) :
          /\ SlotRows(MetaData[i], f) = <<[type |-> f, text |-> Null]>>
          /\ f \notin TypesOf(get_all_meta_data(i))
          /\ get_meta_data(i, f) = Ok(Null)
    /\ \A f \in NamedIntegerSlots \ Given(n) :
          /\ SlotRows(MetaDataInteger[i], IntegerSlotOf[f]) =
                 <<[type |-> IntegerSlotOf[f], value |-> Null]>>
          /\ IntegerSlotOf[f] \notin TypesOf(get_all_meta_data_integer(i))
          /\ get_meta_data_integer(i, IntegerSlotOf[f]) = Ok(Null)

\* The bulk string write of m and the bulk integer write of n for id i, one
\* after the other.
C9_BothWritten(i, m, n) ==
    \/ /\ ret.op = "set_meta_data_bulk" /\ ret.id = i /\ ret.arg = m
       /\ ret'.op = "set_meta_data_integer_bulk"
       /\ ret'.id = i /\ ret'.arg = n
    \/ /\ ret.op = "set_meta_data_integer_bulk" /\ ret.id = i /\ ret.arg = n
       /\ ret'.op = "set_meta_data_bulk" /\ ret'.id = i /\ ret'.arg = m

\* C9, as amended: after the bulk string write and the bulk integer write
\* for a track id, the tables hold exactly 15 string rows and 12 integer
\* rows for the id, one per slot, and the bulk reads return exactly the rows
\* that are not null: 2 string rows (unknown_15, unknown_16) and 2 integer
\* rows (unknown_11, unknown_12) plus one row per named value that was
\* given.  A named slot written as absent is stored as a row with a null,
\* is missing from the bulk read, and its per-slot read is absent.
C9_BulkWriteThenRead ==
    [][\A i \in Ids, m \in MetaInputs, n \in MetaIntegerInputs :
         C9_BothWritten(i, m, n) =>
             (C9_Stored(i) /\ C9_Read(i, m, n) /\ C9_Absent(i, m, n))']_vars

C9_Witness ==
    /\ ret.op = "set_meta_data_integer_bulk"
    /\ ret.arg = NoMetaInteger
    /\ C9_Stored(ret.id)
    /\ SlotRows(MetaData[ret.id], "ever_played") =
           <<[type |-> "ever_played", text |-> Null]>>
    /\ SlotRows(MetaData[ret.id], "title") =
           <<[type |-> "title", text |-> <<"T">>]>>
    /\ Len(get_all_meta_data(ret.id)) = 4
    /\ Len(get_all_meta_data_integer(ret.id)) = 2

\* C9, as stated: the bulk reads yield exactly 15 string rows and exactly 12
\* integer rows for every choice of the named values, and a named slot
\* written as absent appears in the read as a row with value None.
C9_FifteenAndTwelveRead ==
    [][\A i \in Ids, m \in MetaInputs, n \in MetaIntegerInputs :
         C9_BothWritten(i, m, n) =>
             (LET out == get_all_meta_data(i)
                  outInteger == get_all_meta_data_integer(i)
              IN /\ Len(out) = 15
                 /\ Len(outInteger) = 12
                 /\ \A f \in NamedSlots \ Given(m) :
                       \E k \in 1..Len(out) :
                           out[k].type = f /\ out[k].text = Null)']_vars

\* The one row of a slot holds the text, or the value.
HoldsText(rows, type, text) ==
    SlotRows(rows, type) = <<[type |-> type, text |-> text]>>

HoldsValue(rows, type, value) ==
    SlotRows(rows, type) = <<[type |-> type, value |-> value]>>

\* C10: immediately after a bulk metadata write for a track id, the stored
\* rows of the id hold the literals: the text "1" in the string slots
\* unknown_15 and unknown_16, null in the string slots unknown_8, unknown_9
\* and unknown_17, 1 in the integer slots unknown_11 and unknown_12, null in
\* the integer slots unknown_6, unknown_7, unknown_8 and unknown_9, whatever
\* the slots held before.
C10_UnknownLiterals ==
    /\ ret.op = "set_meta_data_bulk" =>
          /\ \A t \in {"unknown_15", "unknown_16"} :
                HoldsText(MetaData[ret.id], t, <<"1">>)
          /\ \A t \in {"unknown_8", "unknown_9", "unknown_17"} :
                HoldsText(MetaData[ret.id], t, Null)
    /\ ret.op = "set_meta_data_integer_bulk" =>
          /\ \A t \in {"unknown_11", "unknown_12"} :
                HoldsValue(MetaDataInteger[ret.id], t, <<1>>)
          /\ \A t \in {"unknown_6", "unknown_7", "unknown_8", "unknown_9"} :
                HoldsValue(MetaDataInteger[ret.id], t, Null)

C10_Witness ==
    /\ ret.op = "set_meta_data_bulk"
    /\ HoldsText(ret.old, "unknown_15", <<"x">>)
    /\ HoldsText(MetaData[ret.id], "unknown_15", <<"1">>)

\* The slot numbers of the last 12 rows of a sequence, in rowid order.
LastTwelveSlots(rows) ==
    [k \in 1..12 |-> metadata_int_type[rows[Len(rows) - 12 + k].type]]

\* C11: the bulk integer write inserts its 12 rows in the slot order 4, 5,
\* 1, 2, 3, 6, 8, 7, 9, 10, 11, 12 (musical-key, rating, last-played,
\* last-modified, last-accessed, unknown 6, unknown 8, unknown 7, unknown 9,
\* last-play-hash, unknown 11, unknown 12), each slot exactly once: they are
\* the 12 newest rows of the id, in that order of rowid.
C11_IntegerInsertOrder ==
    ret.op = "set_meta_data_integer_bulk" =>
        LET rows == MetaDataInteger[ret.id] IN
        /\ Len(rows) >= 12
        /\ LastTwelveSlots(rows) = <<4, 5, 1, 2, 3, 6, 8, 7, 9, 10, 11, 12>>
        /\ [k \in 1..12 |-> rows[Len(rows) - 12 + k].type] =
               << "musical_key", "rating", "last_played_ts",
                  "last_modified_ts", "last_accessed_ts", "unknown_6",
                  "unknown_8", "unknown_7", "unknown_9", "last_play_hash",
                  "unknown_11", "unknown_12" >>

\* The rows the id held before were in another order.
C11_Witness ==
    /\ ret.op = "set_meta_data_integer_bulk"
    /\ Len(ret.old) = 12
    /\ ret.old[12].type = "unknown_11"
    /\ LastTwelveSlots(MetaDataInteger[ret.id]) =
           <<4, 5, 1, 2, 3, 6, 8, 7, 9, 10, 11, 12>>

(***************************************************************************)
(* Failing statements.  The code opens no transaction: each db << ... is   *)
(* one statement of its own, and SQLite undoes the changes of a statement  *)
(* that fails while it leaves those of the statements before it.           *)
(***************************************************************************)
\* The table after the statements stmts, of which statement number fail
\* fails and ends the call (0: none fails).
RECURSIVE Execute(_, _, _)
Execute(rows, stmts, fail) ==
    IF stmts = <<>> \/ fail = 1 THEN rows
    ELSE Execute(ReplaceAll(rows, Head(stmts)), Tail(stmts),
                 IF fail = 0 THEN 0 ELSE fail - 1)

\* A mutant of the bulk write: one statement per row.
set_meta_data_stmts_row_by_row(m) ==
    [k \in 1..Len(set_meta_data_rows(m)) |-> <<set_meta_data_rows(m)[k]>>]

\* el_storage::set_meta_data (bulk): the statements of the call, one INSERT
\* OR REPLACE with 15 rows.
set_meta_data_stmts(m) == <<set_meta_data_rows(m)>>

\* el_storage::set_meta_data_integer (bulk): one INSERT OR REPLACE with 12
\* rows.
set_meta_data_integer_stmts(n) == <<set_meta_data_integer_rows(n)>>

\* The bulk write when a statement of it fails: sqlite_exception leaves the
\* call.
SetMetaDataBulkFails(id, m) ==
    /\ handle.state = "Open"
    /\ \E fail \in 1..Len(set_meta_data_stmts(m)) :
         MetaData' = [MetaData EXCEPT
                        ![id] = Execute(@, set_meta_data_stmts(m), fail)]
    /\ ret' = [op |-> "set_meta_data_bulk_failed", id |-> id, arg |-> m,
               old |-> MetaData[id], err |-> "sqlite_error"]
    /\ UNCHANGED <<disk, handle, schema, keyed, Track, MetaDataInteger, PerformanceData>>

SetMetaDataIntegerBulkFails(id, n) ==
    /\ handle.state = "Open"
    /\ \E fail \in 1..Len(set_meta_data_integer_stmts(n)) :
         MetaDataInteger' =
           [MetaDataInteger EXCEPT
              ![id] = Execute(@, set_meta_data_integer_stmts(n), fail)]
    /\ ret' = [op |-> "set_meta_data_integer_bulk_failed", id |-> id,
               arg |-> n, old |-> MetaDataInteger[id],
               err |-> "sqlite_error"]
    /\ UNCHANGED <<disk, handle, schema, keyed, Track, MetaData, PerformanceData>>

(***************************************************************************)
(* The bulk metadata writes, succeeding or failing, on a created library.  *)
(***************************************************************************)
NextBulk ==
    \/ \E id \in Ids, m \in MetaInputs : SetMetaDataBulk(id, m)
    \/ \E id \in Ids, m \in MetaInputs : SetMetaDataBulkFails(id, m)
    \/ \E id \in Ids : GetAllMetaData(id)
    \/ \E id \in Ids, n \in MetaIntegerInputs : SetMetaDataIntegerBulk(id, n)
    \/ \E id \in Ids, n \in MetaIntegerInputs :
         SetMetaDataIntegerBulkFails(id, n)
    \/ \E id \in Ids : GetAllMetaDataInteger(id)

SpecBulk == InitMeta /\ [][NextBulk]_vars

\* The slots of the two bulk writes.
StringSlots ==
    NamedSlots
    \cup {"unknown_8", "unknown_9", "unknown_15", "unknown_16", "unknown_17"}

IntegerSlots ==
    {IntegerSlotOf[f] : f \in NamedIntegerSlots}
    \cup {"unknown_6", "unknown_7", "unknown_8", "unknown_9", "unknown_11",
          "unknown_12"}

\* The rows are those of one whole bulk write, or there is none.
WholeOrNone(i) ==
    /\ \/ MetaData[i] = <<>>
       \/ /\ Len(MetaData[i]) = 15
          /\ TypesOf(MetaData[i]) = StringSlots
          /\ \E m \in MetaInputs :
                \A f \in NamedSlots : HoldsText(MetaData[i], f, m[f])
    /\ \/ MetaDataInteger[i] = <<>>
       \/ /\ Len(MetaDataInteger[i]) = 12
          /\ TypesOf(MetaDataInteger[i]) = IntegerSlots
          /\ \E n \in MetaIntegerInputs :
                \A f \in NamedIntegerSlots :
                    HoldsValue(MetaDataInteger[i], IntegerSlotOf[f], n[f])

\* C12: each bulk metadata write is all-or-nothing.  Where bulk writes are
\* the only writes, the rows of a track id are in every reachable state
\* those of one whole bulk write (all 15 string slots, all 12 integer
\* slots) or none; after a bulk write that failed they are the rows the id
\* held before, and after one that succeeded they hold the values of that
\* write.
C12_BulkAllOrNothing ==
    /\ \A i \in Ids : WholeOrNone(i)
    /\ ret.op = "set_meta_data_bulk_failed" => MetaData[ret.id] = ret.old
    /\ ret.op = "set_meta_data_integer_bulk_failed" =>
           MetaDataInteger[ret.id] = ret.old
    /\ ret.op = "set_meta_data_bulk" =>
           \A f \in NamedSlots : HoldsText(MetaData[ret.id], f, ret.arg[f])
    /\ ret.op = "set_meta_data_integer_bulk" =>
           \A f \in NamedIntegerSlots :
               HoldsValue(MetaDataInteger[ret.id], IntegerSlotOf[f],
                          ret.arg[f])

\* A write of other values failed on an id that held a whole write.
C12_Witness ==
    /\ ret.op = "set_meta_data_bulk_failed"
    /\ ret.arg = M_full
    /\ Len(ret.old) = 15
    /\ HoldsText(MetaData[ret.id], "title", <<"T">>)
    /\ Len(MetaDataInteger[ret.id]) = 12

(***************************************************************************)
(* PerformanceData.  A row is its id and its columns, a column holding     *)
(* <<>> for NULL and <<n>> for the number n.  The six data members of      *)
(* performance_data_row are values of the codecs, which are not part of    *)
(* the storage facade: encode makes the blob of a value and decode is its  *)
(* inverse, an empty blob being the default value.                         *)
(***************************************************************************)
MaxPerfId == 2
PerfIds == 1..MaxPerfId

encode(x) == <<"blob", x>>
decode(b) == IF b = <<>> THEN "default" ELSE b[2]

\* The columns every version of PerformanceData has, after id, in the order
\* the statements name them.
PerfBaseColumns ==
    << "isAnalyzed", "isRendered", "trackData",
       "highResolutionWaveFormData", "overviewWaveFormData", "beatData",
       "quickCues", "loops", "hasSeratoValues" >>

PerfColumns_1_11_1 ==
    PerfBaseColumns \o <<"hasRekordboxValues", "hasTraktorValues">>
PerfColumns_1_7_1 == PerfBaseColumns \o <<"hasRekordboxValues">>

PerfAllColumns == {PerfColumns_1_11_1[i] : i \in 1..Len(PerfColumns_1_11_1)}

\* The values every statement binds after id, in the order it binds them.
PerfBaseArgs(r) ==
    << <<r.is_analyzed>>, <<r.is_rendered>>, encode(r.track_data),
       encode(r.high_res_waveform_data), encode(r.overview_waveform_data),
       encode(r.beat_data), encode(r.quick_cues_data), encode(r.loops_data),
       <<r.has_serato_values>> >>

\* The columns of a new row: those the statement names hold the values it
\* binds, the others NULL.
PerfAssign(st) ==
    [c \in PerfAllColumns |->
        IF \E i \in 1..Len(st.cols) : st.cols[i] = c
        THEN st.vals[CHOOSE i \in 1..Len(st.cols) : st.cols[i] = c]
        ELSE Null]

\* A mutant of set_performance_data_stmt: hasRekordboxValues is bound from
\* 1.11.1 on only.
set_performance_data_stmt_late_rekordbox(v, r) ==
    IF VersionGE(v, version_1_11_1)
    THEN Stmt(PerfColumns_1_11_1,
              PerfBaseArgs(r)
                \o << <<r.has_rekordbox_values>>, <<r.has_traktor_values>> >>)
    ELSE Stmt(PerfBaseColumns, PerfBaseArgs(r))

\* The column list, after id, of the INSERT OR REPLACE that
\* set_performance_data issues for version v, and the values it binds.
set_performance_data_stmt(v, r) ==
    IF VersionGE(v, version_1_11_1)
    THEN Stmt(PerfBaseColumns \o <<"hasRekordboxValues", "hasTraktorValues">>,
              PerfBaseArgs(r)
                \o << <<r.has_rekordbox_values>>, <<r.has_traktor_values>> >>)
    ELSE IF VersionGE(v, version_1_7_1)
    THEN Stmt(PerfBaseColumns \o <<"hasRekordboxValues">>,
              PerfBaseArgs(r) \o << <<r.has_rekordbox_values>> >>)
    ELSE Stmt(PerfBaseColumns, PerfBaseArgs(r))

\* A mutant of ReplaceById: the row is inserted and none is deleted.
ReplaceById_append(rows, r) == Append(rows, r)

\* A mutant of ReplaceById: every row of the table is deleted before the new
\* one is inserted.
ReplaceById_truncate(rows, r) == <<r>>

\* INSERT OR REPLACE of one row: where id is the primary key of the table,
\* which makes it the rowid, the row that holds the id is deleted and the
\* new row takes the place its id gives it.
ReplaceById(rows, r) ==
    IF keyed
    THEN SelectSeq(rows, LAMBDA q : q.id < r.id) \o <<r>>
         \o SelectSeq(rows, LAMBDA q : q.id > r.id)
    ELSE Append(rows, r)

\* The rows of PerformanceData with the given id (WHERE id = ?).
PerfRows(id) == SelectSeq(PerformanceData, LAMBDA q : q.id = id)

\* performance_data_row{id, ...}: aggregate initialisation; the members
\* past the last value are value-initialised.
performance_data_row(id, values) ==
    [id |-> id,
     is_analyzed |-> IF Len(values) >= 1 THEN values[1] ELSE 0,
     is_rendered |-> IF Len(values) >= 2 THEN values[2] ELSE 0,
     track_data |-> IF Len(values) >= 3 THEN values[3] ELSE "default",
     high_res_waveform_data |->
         IF Len(values) >= 4 THEN values[4] ELSE "default",
     overview_waveform_data |->
         IF Len(values) >= 5 THEN values[5] ELSE "default",
     beat_data |-> IF Len(values) >= 6 THEN values[6] ELSE "default",
     quick_cues_data |-> IF Len(values) >= 7 THEN values[7] ELSE "default",
     loops_data |-> IF Len(values) >= 8 THEN values[8] ELSE "default",
     has_serato_values |-> IF Len(values) >= 9 THEN values[9] ELSE 0,
     has_rekordbox_values |-> IF Len(values) >= 10 THEN values[10] ELSE 0,
     has_traktor_values |-> IF Len(values) >= 11 THEN values[11] ELSE 0]

\* A column read into an int64_t: a NULL reads 0.
int64(c) == IF c = Null THEN 0 ELSE c[1]

\* The callbacks of get_performance_data: the row that version v selects.
read_performance_data_row(v, row) ==
    LET c == row.col
        base == << int64(c["isAnalyzed"]), int64(c["isRendered"]),
                   decode(c["trackData"]),
                   decode(c["highResolutionWaveFormData"]),
                   decode(c["overviewWaveFormData"]), decode(c["beatData"]),
                   decode(c["quickCues"]), decode(c["loops"]),
                   int64(c["hasSeratoValues"]) >>
    IN IF VersionGE(v, version_1_11_1)
       THEN performance_data_row(row.id,
                base \o << int64(c["hasRekordboxValues"]),
                           int64(c["hasTraktorValues"]) >>)
       ELSE IF VersionGE(v, version_1_7_1)
       THEN performance_data_row(row.id,
                base \o <<int64(c["hasRekordboxValues"])>>)
       ELSE performance_data_row(row.id, base)

\* A mutant of get_performance_data: no row is track_deleted, as it is for
\* get_track.
get_performance_data_or_deleted(id) ==
    LET rows == PerfRows(id) IN
    IF Len(rows) > 1 THEN Err("track_database_inconsistency", Null)
    ELSE IF Len(rows) = 0 THEN Err("track_deleted", Null)
    ELSE Ok(read_performance_data_row(handle.version, rows[1]))

\* el_storage::get_performance_data: the callback throws on the second
\* row; no row at all is the default row of the id.
get_performance_data(id) ==
    LET rows == PerfRows(id) IN
    IF Len(rows) > 1 THEN Err("track_database_inconsistency", Null)
    ELSE IF Len(rows) = 0 THEN Ok(performance_data_row(id, <<>>))
    ELSE Ok(read_performance_data_row(handle.version, rows[1]))

\* A mutant of clear_performance_data: DELETE FROM PerformanceData without
\* the WHERE.
clear_performance_data_all(rows, id) == <<>>

\* el_storage::clear_performance_data: DELETE ... WHERE id = ?
clear_performance_data(rows, id) == SelectSeq(rows, LAMBDA q : q.id # id)

\* A mutant of set_performance_data: nothing is written for an id that has
\* no Track row.
SetPerformanceData_checked(id, r) ==
    /\ handle.state = "Open"
    /\ PerformanceData' =
         IF TrackRows(id) = <<>> THEN PerformanceData
         ELSE ReplaceById(PerformanceData,
                          [id |-> id,
                           col |-> PerfAssign(
                                     set_performance_data_stmt(handle.version,
                                                               r))])
    /\ ret' = [op |-> "set_performance_data", id |-> id, arg |-> r,
               had |-> Len(PerfRows(id))]
    /\ UNCHANGED <<disk, handle, schema, keyed, Track, meta>>

SetPerformanceData(id, r) ==
    /\ handle.state = "Open"
    /\ PerformanceData' =
         ReplaceById(PerformanceData,
                     [id |-> id,
                      col |-> PerfAssign(
                                set_performance_data_stmt(handle.version, r))])
    /\ ret' = [op |-> "set_performance_data", id |-> id, arg |-> r,
               had |-> Len(PerfRows(id))]
    /\ UNCHANGED <<disk, handle, schema, keyed, Track, meta>>

GetPerformanceData(id) ==
    /\ handle.state = "Open"
    /\ ret' = [op |-> "get_performance_data", id |-> id,
               out |-> get_performance_data(id)]
    /\ UNCHANGED <<disk, handle, schema, tables>>

ClearPerformanceData(id) ==
    /\ handle.state = "Open"
    /\ PerformanceData' = clear_performance_data(PerformanceData, id)
    /\ ret' = [op |-> "clear_performance_data", id |-> id,
               had |-> Len(PerfRows(id))]
    /\ UNCHANGED <<disk, handle, schema, keyed, Track, meta>>

(***************************************************************************)
(* Performance data the operations are called with.                        *)
(***************************************************************************)
\* Analysed, every flag set.
P_analyzed ==
    [is_analyzed |-> 1, is_rendered |-> 1, track_data |-> "td",
     high_res_waveform_data |-> "hw", overview_waveform_data |-> "ow",
     beat_data |-> "bd", quick_cues_data |-> "qc", loops_data |-> "lp",
     has_serato_values |-> 1, has_rekordbox_values |-> 1,
     has_traktor_values |-> 1]

\* The values of the default row.
P_default ==
    [is_analyzed |-> 0, is_rendered |-> 0, track_data |-> "default",
     high_res_waveform_data |-> "default",
     overview_waveform_data |-> "default", beat_data |-> "default",
     quick_cues_data |-> "default", loops_data |-> "default",
     has_serato_values |-> 0, has_rekordbox_values |-> 0,
     has_traktor_values |-> 0]

\* Beat data only, and the flag of Traktor.
P_beats ==
    [P_default EXCEPT !.is_analyzed = 1, !.beat_data = "bd2",
                      !.has_traktor_values = 1]

PerfInputs == {P_analyzed, P_default, P_beats}

(***************************************************************************)
(* The performance data of a library created at a version of the registry. *)
(***************************************************************************)
NextPerf ==
    \/ \E id \in PerfIds, r \in PerfInputs : SetPerformanceData(id, r)
    \/ \E id \in PerfIds : GetPerformanceData(id)
    \/ \E id \in PerfIds : ClearPerformanceData(id)

SpecPerf == InitTrack /\ [][NextPerf]_vars

(***************************************************************************)
(* Every write of the facade, on a library created at 1.18.0.              *)
(***************************************************************************)
NextWrites ==
    \/ CreateTrack(T_s3)
    \/ UpdateTrack(1, T_s3_241)
    \/ \E id \in Ids, type \in SlotTypes, content \in SlotContents :
         SetMetaData(id, type, content)
    \/ \E id \in Ids : SetMetaDataBulk(id, M_s4)
    \/ \E id \in Ids, type \in IntegerSlotTypes,
          content \in IntegerSlotContents :
         SetMetaDataInteger(id, type, content)
    \/ \E id \in Ids : SetMetaDataIntegerBulk(id, N_rated)
    \/ \E id \in PerfIds : SetPerformanceData(id, P_analyzed)
    \/ \E id \in PerfIds : ClearPerformanceData(id)

SpecWrites == InitMeta /\ [][NextWrites]_vars

\* C13: after any sequence of create_track, update_track, per-slot and bulk
\* metadata writes, set_performance_data and clear_performance_data on a
\* freshly created library, every track id has at most one PerformanceData
\* row and at most one row per (id, type) in MetaData and in
\* MetaDataInteger.
C13_AtMostOneRow ==
    /\ \A id \in PerfIds : Len(PerfRows(id)) <= 1
    /\ \A id \in Ids :
          /\ \A t \in StringSlots : Len(SlotRows(MetaData[id], t)) <= 1
          /\ Len(MetaData[id]) <= 15
          /\ \A t \in IntegerSlots :
                Len(SlotRows(MetaDataInteger[id], t)) <= 1
          /\ Len(MetaDataInteger[id]) <= 12

\* Each table was written twice for one id.
C13_Witness ==
    /\ ret.op = "set_performance_data"
    /\ ret.had = 1
    /\ Len(PerfRows(ret.id)) = 1
    /\ Len(Track) >= 1
    /\ \E id \in Ids :
          /\ Len(MetaData[id]) = 15
          /\ MetaData[id][15].type = "unknown_15"
          /\ Len(MetaDataInteger[id]) = 12
          /\ MetaDataInteger[id][12].type = "unknown_11"

(***************************************************************************)
(* PerformanceData: the claims.                                            *)
(***************************************************************************)
\* The default row of an id: every blob the default value, every flag zero.
DefaultRow(id) ==
    [id |-> id, is_analyzed |-> 0, is_rendered |-> 0,
     track_data |-> "default", high_res_waveform_data |-> "default",
     overview_waveform_data |-> "default", beat_data |-> "default",
     quick_cues_data |-> "default", loops_data |-> "default",
     has_serato_values |-> 0, has_rekordbox_values |-> 0,
     has_traktor_values |-> 0]

\* C14: for every schema version, get_performance_data(id) on an id without
\* a PerformanceData row raises no error and returns the default row of
\* that id; it inserts no row.
C14_GetWithoutRow ==
    [][\A id \in PerfIds :
         (PerfRows(id) = <<>> /\ ret'.op = "get_performance_data"
             /\ ret'.id = id) =>
             /\ ret'.out = Ok(DefaultRow(id))
             /\ PerformanceData' = PerformanceData
             /\ PerfRows(id)' = <<>>]_vars

\* The id has no row while another id has one.
C14_Witness ==
    /\ ret.op = "get_performance_data"
    /\ PerfRows(ret.id) = <<>>
    /\ PerformanceData # <<>>
    /\ ret.out = Ok(DefaultRow(ret.id))
    /\ handle.version = version_1_6_0

\* r restricted to the columns of version v, as the row of id: the flag of
\* Rekordbox is stored from 1.7.1, the flag of Traktor from 1.11.1.
ProjectPerf(v, id, r) ==
    [id |-> id, is_analyzed |-> r.is_analyzed, is_rendered |-> r.is_rendered,
     track_data |-> r.track_data,
     high_res_waveform_data |-> r.high_res_waveform_data,
     overview_waveform_data |-> r.overview_waveform_data,
     beat_data |-> r.beat_data, quick_cues_data |-> r.quick_cues_data,
     loops_data |-> r.loops_data, has_serato_values |-> r.has_serato_values,
     has_rekordbox_values |->
         IF AtLeast(v, 1, 7, 1) THEN r.has_rekordbox_values ELSE 0,
     has_traktor_values |->
         IF AtLeast(v, 1, 11, 1) THEN r.has_traktor_values ELSE 0]

\* C15: for every schema version V, get_performance_data(id) after
\* set_performance_data(id, r) returns r restricted to the columns of V,
\* whether or not the id had a row before, and the id has the one row: the
\* flag of Rekordbox is stored from 1.7.1 and the flag of Traktor from
\* 1.11.1, and a flag whose column V lacks reads back zero.
C15_SetThenGet ==
    ret.op = "set_performance_data" =>
        /\ get_performance_data(ret.id) =
               Ok(ProjectPerf(handle.version, ret.id, ret.arg))
        /\ Len(PerfRows(ret.id)) = 1

\* The id had a row, and the version lacks the column of a flag that was
\* passed as 1.
C15_Witness ==
    /\ ret.op = "set_performance_data"
    /\ ret.had = 1
    /\ handle.version = version_1_9_1
    /\ ret.arg = P_beats
    /\ get_performance_data(ret.id).value.has_traktor_values = 0
    /\ get_performance_data(ret.id).value.beat_data = "bd2"

\* C16: clear_performance_data(id) removes the PerformanceData row of id
\* when there is one and does nothing, silently, when there is none; after
\* it get_performance_data(id) returns the default row, and the rows of
\* every other id are unchanged.
C16_ClearPerformanceData ==
    [][\A id \in PerfIds :
         (ret'.op = "clear_performance_data" /\ ret'.id = id) =>
             /\ PerfRows(id)' = <<>>
             /\ get_performance_data(id)' = Ok(DefaultRow(id))
             /\ PerfRows(id) = <<>> => PerformanceData' = PerformanceData
             /\ \A other \in PerfIds \ {id} :
                    PerfRows(other)' = PerfRows(other)]_vars

\* The row of the id was removed and the row of another id is there.
C16_Witness ==
    /\ ret.op = "clear_performance_data"
    /\ ret.had = 1
    /\ PerfRows(ret.id) = <<>>
    /\ PerformanceData # <<>>

(***************************************************************************)
(* The metadata of an existing library, which the code did not create: the *)
(* tables may have been made without their keys and hold several rows for  *)
(* one slot.  Track 1 holds any rows, the tracks after it one row each.    *)
(***************************************************************************)
MaxStoredRows == 2

StoredIds == 1..(MaxId + 1)

StoredTypes == {"title", "unknown_15"}
StoredIntegerTypes == {"rating", "unknown_11"}

StoredMetaRows ==
    {[type |-> t, text |-> x] : t \in StoredTypes, x \in {Null, <<"x">>}}

StoredMetaIntegerRows ==
    {[type |-> t, value |-> x] :
        t \in StoredIntegerTypes, x \in {Null, <<7>>}}

\* The sequences of at most MaxStoredRows rows.
StoredSeqs(rows) == UNION {[1..n -> rows] : n \in 0..MaxStoredRows}

StoredMetaData ==
    {[id \in StoredIds |->
        IF id = 1 THEN s ELSE <<[type |-> "title", text |-> <<"other">>]>>] :
     s \in StoredSeqs(StoredMetaRows)}

StoredMetaDataInteger ==
    {[id \in StoredIds |->
        IF id = 1 THEN s ELSE <<[type |-> "rating", value |-> <<9>>]>>] :
     s \in StoredSeqs(StoredMetaIntegerRows)}

InitMetaExisting ==
    /\ disk = NoDir
    /\ handle = Created(version_1_18_0_fw)
    /\ catalog = WithoutKeys(Reference)
    /\ verify = NotVerifying
    /\ keyed = FALSE
    /\ Track = <<>>
    /\ MetaData \in StoredMetaData
    /\ MetaDataInteger \in StoredMetaDataInteger
    /\ PerformanceData = <<>>
    /\ ret = NoRet

NextMetaExisting ==
    \/ \E id \in StoredIds : GetAllMetaData(id)
    \/ \E id \in StoredIds, type \in StoredTypes : GetMetaData(id, type)
    \/ \E id \in StoredIds : GetAllMetaDataInteger(id)
    \/ \E id \in StoredIds, type \in StoredIntegerTypes :
         GetMetaDataInteger(id, type)

SpecMetaExisting == InitMetaExisting /\ [][NextMetaExisting]_vars

\* C17: the per-(id, type) metadata get, string and integer, raises
\* TrackDatabaseInconsistency whenever the table holds more than one row
\* for the slot, whatever the values of the rows, null or not.
C17_DuplicateSlotRaises ==
    /\ (ret.op = "get_meta_data"
          /\ Len(SlotRows(MetaData[ret.id], ret.type)) > 1) =>
           /\ ret.out.kind = "err"
           /\ ret.out.err = "track_database_inconsistency"
    /\ (ret.op = "get_meta_data_integer"
          /\ Len(SlotRows(MetaDataInteger[ret.id], ret.type)) > 1) =>
           /\ ret.out.kind = "err"
           /\ ret.out.err = "track_database_inconsistency"

\* How often x is a member of the sequence.
Count(seq, x) == Cardinality({k \in 1..Len(seq) : seq[k] = x})

\* C18: the bulk metadata get for a track id, string and integer, returns
\* exactly the stored rows of the id whose value is not null: every such
\* row once, no row with a null value and no row of another id.
C18_BulkGetNonNull ==
    /\ ret.op = "get_all_meta_data" =>
          LET stored == MetaData[ret.id] IN
          /\ \A k \in 1..Len(ret.out) :
                ret.out[k].id = ret.id /\ ret.out[k].text # Null
          /\ \A t \in StoredTypes, x \in {<<"x">>, <<"other">>} :
                Count(ret.out, [id |-> ret.id, type |-> t, text |-> x]) =
                    Count(stored, [type |-> t, text |-> x])
          /\ Len(ret.out) =
                Cardinality({k \in 1..Len(stored) : stored[k].text # Null})
    /\ ret.op = "get_all_meta_data_integer" =>
          LET stored == MetaDataInteger[ret.id] IN
          /\ \A k \in 1..Len(ret.out) :
                ret.out[k].id = ret.id /\ ret.out[k].value # Null
          /\ \A t \in StoredIntegerTypes, x \in {<<7>>, <<9>>} :
                Count(ret.out, [id |-> ret.id, type |-> t, value |-> x]) =
                    Count(stored, [type |-> t, value |-> x])
          /\ Len(ret.out) =
                Cardinality({k \in 1..Len(stored) : stored[k].value # Null})

\* The id holds a row with a null and a row without, and another id holds
\* a row.
C18_Witness ==
    /\ ret.op = "get_all_meta_data"
    /\ ret.id = 1
    /\ MetaData[1] = << [type |-> "title", text |-> Null],
                        [type |-> "title", text |-> <<"x">>] >>
    /\ MetaData[2] # <<>>
    /\ ret.out = <<[id |-> 1, type |-> "title", text |-> <<"x">>]>>

(***************************************************************************)
(* Per-slot and bulk writes of one slot of each table, and its reads, on a *)
(* created library.                                                        *)
(***************************************************************************)
WrittenTypes == {"title"}
WrittenContents == {Null, <<"x">>}
WrittenIntegerTypes == {"rating"}
WrittenIntegerContents == {Null, <<7>>}

NextSlots ==
    \/ \E id \in Ids, type \in WrittenTypes, content \in WrittenContents :
         SetMetaData(id, type, content)
    \/ \E id \in Ids : SetMetaDataBulk(id, M_s4)
    \/ \E id \in Ids, type \in WrittenTypes \cup {"album", "unknown_15"} :
         GetMetaData(id, type)
    \/ \E id \in Ids, type \in WrittenIntegerTypes,
          content \in WrittenIntegerContents :
         SetMetaDataInteger(id, type, content)
    \/ \E id \in Ids : SetMetaDataIntegerBulk(id, N_rated)
    \/ \E id \in Ids, type \in WrittenIntegerTypes \cup {"unknown_11"} :
         GetMetaDataInteger(id, type)

SpecSlots == InitMeta /\ [][NextSlots]_vars

\* The per-slot gets of every slot but those of the set, before and after
\* the step, are the same.
OtherSlotsKept(written) ==
    /\ \A id \in Ids, t \in StringSlots :
          <<"MetaData", id, t>> \notin written =>
              get_meta_data(id, t)' = get_meta_data(id, t)
    /\ \A id \in Ids, t \in IntegerSlots :
          <<"MetaDataInteger", id, t>> \notin written =>
              get_meta_data_integer(id, t)' = get_meta_data_integer(id, t)

\* C19: on a created library, after any sequence of per-slot and bulk
\* writes, the per-slot get of (id, type) returns the value of the most
\* recent write to that slot, or absent when that write carried no value or
\* the slot was never written.  Before any write every get is absent; a
\* per-slot write makes the get of its slot its content and leaves every
\* other get as it was; a bulk write makes the get of each named slot the
\* value of the argument, and leaves the gets of the other ids and of the
\* other table as they were; a read leaves every get as it was.
C19_LastWriteWins ==
    /\ \A id \in Ids :
          /\ \A t \in StringSlots : get_meta_data(id, t) = Ok(Null)
          /\ \A t \in IntegerSlots : get_meta_data_integer(id, t) = Ok(Null)
    /\ [][\A id \in Ids :
            ret'.id = id =>
              /\ ret'.op = "set_meta_data" =>
                   \A t \in StringSlots :
                     ret'.type = t =>
                       /\ get_meta_data(id, t)' = Ok(ret'.arg)
                       /\ OtherSlotsKept({<<"MetaData", id, t>>})
              /\ ret'.op = "set_meta_data_integer" =>
                   \A t \in IntegerSlots :
                     ret'.type = t =>
                       /\ get_meta_data_integer(id, t)' = Ok(ret'.arg)
                       /\ OtherSlotsKept({<<"MetaDataInteger", id, t>>})
              /\ ret'.op = "set_meta_data_bulk" =>
                   /\ \A f \in NamedSlots :
                         get_meta_data(id, f)' = Ok(ret'.arg[f])
                   /\ OtherSlotsKept({<<"MetaData", id, t>> :
                                         t \in StringSlots})
              /\ ret'.op = "set_meta_data_integer_bulk" =>
                   /\ \A f \in NamedIntegerSlots :
                         get_meta_data_integer(id, IntegerSlotOf[f])' =
                             Ok(ret'.arg[f])
                   /\ OtherSlotsKept({<<"MetaDataInteger", id, t>> :
                                         t \in IntegerSlots})
              /\ ret'.op \in {"get_meta_data", "get_meta_data_integer"} =>
                   OtherSlotsKept({})]_vars

\* A bulk write gave the title, a per-slot write without a content followed
\* it, and the get of the title is absent while that of the artist is the
\* one of the bulk write.
C19_Witness ==
    /\ ret.op = "get_meta_data"
    /\ ret.type = "title"
    /\ ret.out = Ok(Null)
    /\ Len(MetaData[ret.id]) = 15
    /\ MetaData[ret.id][15] = [type |-> "title", text |-> Null]
    /\ get_meta_data(ret.id, "artist") = Ok(<<"A">>)

(***************************************************************************)
(* The validation of the catalog of an existing store against the          *)
(* reference definition: every list is walked in lockstep with the         *)
(* validate calls of the definition, and validate_no_more ends it.         *)
(***************************************************************************)
Walking(list) ==
    /\ handle.state = "Open"
    /\ verify.pc = "walking"
    /\ Checks[verify.check].list = list

\* The validation after the call that gave out.
Advance(out) ==
    IF out.err # "none"
    THEN [verify EXCEPT !.pc = "thrown", !.thrown = out]
    ELSE [verify EXCEPT !.iter = @ + 1]

BeginVerify ==
    /\ handle.state = "Open"
    /\ verify.pc = "idle"
    /\ verify' = [verify EXCEPT !.pc = "walking", !.check = 1, !.iter = 1]
    /\ UNCHANGED <<disk, handle, catalog, tables, ret>>

ValidateMasterList ==
    /\ Walking("master_list")
    /\ verify.iter <= Len(Expected(Checks[verify.check]))
    /\ LET check == Checks[verify.check]
           e == Expected(check)[verify.iter]
       IN  verify' = Advance(validate_master_list(
                         ListOf(catalog, check), verify.iter, "music",
                         check.of, e.item_name, e.table_name))
    /\ UNCHANGED <<disk, handle, catalog, tables, ret>>

ValidateTableInfo ==
    /\ Walking("table_info")
    /\ verify.iter <= Len(Expected(Checks[verify.check]))
    /\ LET check == Checks[verify.check]
           e == Expected(check)[verify.iter]
       IN  verify' = Advance(validate_table_info(
                         ListOf(catalog, check), verify.iter, e.col_name,
                         e.col_type, e.nullable, e.default_value,
                         e.part_of_pk))
    /\ UNCHANGED <<disk, handle, catalog, tables, ret>>

ValidateIndexList ==
    /\ Walking("index_list")
    /\ verify.iter <= Len(Expected(Checks[verify.check]))
    /\ LET check == Checks[verify.check]
           e == Expected(check)[verify.iter]
       IN  verify' = Advance(validate_index_list(
                         ListOf(catalog, check), verify.iter, e.index_name,
                         e.unique, e.creation_method, e.partial_index))
    /\ UNCHANGED <<disk, handle, catalog, tables, ret>>

ValidateIndexInfo ==
    /\ Walking("index_info")
    /\ verify.iter <= Len(Expected(Checks[verify.check]))
    /\ LET check == Checks[verify.check]
           e == Expected(check)[verify.iter]
       IN  verify' = Advance(validate_index_info(
                         ListOf(catalog, check), verify.iter, e.col_index_id,
                         e.col_name))
    /\ UNCHANGED <<disk, handle, catalog, tables, ret>>

\* The end of a list: the next list begins, or the validation returns.
ValidateNoMore ==
    /\ handle.state = "Open"
    /\ verify.pc = "walking"
    /\ verify.iter = Len(Expected(Checks[verify.check])) + 1
    /\ LET check == Checks[verify.check]
           out == validate_no_more(ListOf(catalog, check), verify.iter,
                                   check.list, check.of)
       IN  verify' =
             IF out.err # "none"
             THEN [verify EXCEPT !.pc = "thrown", !.thrown = out]
             ELSE IF verify.check = Len(Checks)
             THEN [verify EXCEPT !.pc = "ok"]
             ELSE [verify EXCEPT !.check = @ + 1, !.iter = 1]
    /\ UNCHANGED <<disk, handle, catalog, tables, ret>>

\* The names a renamed table, column or index is given: one before, one
\* among and one after the names of the reference definition.
NewNames == {"A_renamed", "m_renamed", "z_renamed"}

\* The ranks of a column of an index.
MaxRank == 2

\* The values of the entries of a catalog.
ColumnValues ==
    [col_name |-> NewNames, col_type |-> {"INTEGER", "TEXT", "BLOB"},
     nullable |-> {0, 1}, default_value |-> {"", "0"},
     part_of_pk |-> {0, 1, 2}]
IndexValues ==
    [index_name |-> NewNames, unique |-> {0, 1},
     creation_method |-> {"c", "u", "pk"}, partial_index |-> {0, 1}]

\* The catalogs that differ from the reference definition in one place,
\* each with the names, old and new, of the object that differs.
RenamedTables ==
    {[catalog |-> [Reference EXCEPT ![t].name = n],
      changed |-> {Reference[t].name, n}] :
     t \in 1..Len(Reference), n \in NewNames}

ChangedColumns ==
    UNION {
      {[catalog |-> [Reference EXCEPT ![t].cols[k][f] = v],
        changed |-> {Reference[t].cols[k].col_name}
                    \cup (IF f = "col_name" THEN {v} ELSE {})] :
       v \in ColumnValues[f] \ {Reference[t].cols[k][f]}} :
      t \in 1..Len(Reference), k \in 1..3, f \in DOMAIN ColumnValues}

IndexPlaces ==
    {<<t, i>> \in (1..Len(Reference)) \X (1..2) :
        i <= Len(Reference[t].indices)}

ChangedIndices ==
    UNION {
      {[catalog |-> [Reference EXCEPT ![p[1]].indices[p[2]][f] = v],
        changed |-> {Reference[p[1]].indices[p[2]].index_name}
                    \cup (IF f = "index_name" THEN {v} ELSE {})] :
       v \in IndexValues[f] \ {Reference[p[1]].indices[p[2]][f]}} :
      p \in IndexPlaces, f \in DOMAIN IndexValues}

IndexColumnPlaces ==
    {<<p, k>> \in IndexPlaces \X (1..2) :
        k <= Len(Reference[p[1]].indices[p[2]].cols)}

ChangedRanks ==
    UNION {
      {[catalog |->
          [Reference EXCEPT
             ![q[1][1]].indices[q[1][2]].cols[q[2]].col_index_id = v],
        changed |->
          {Reference[q[1][1]].indices[q[1][2]].cols[q[2]].col_name}] :
       v \in (0..MaxRank)
             \ {Reference[q[1][1]].indices[q[1][2]].cols[q[2]].col_index_id}} :
      q \in IndexColumnPlaces}

\* The two columns of the index of a primary key in the other order.
SwappedRanks ==
    {[catalog |->
        [Reference EXCEPT
           ![t].indices[Len(Reference[t].indices)].cols =
               << IndexColumn(0, 1, "type"), IndexColumn(1, 0, "id") >>],
      changed |-> {"id", "type"}] :
     t \in 1..Len(Reference)}

Changes ==
    RenamedTables \cup ChangedColumns \cup ChangedIndices \cup ChangedRanks
    \cup SwappedRanks

Catalogs == {Reference} \cup {m.catalog : m \in Changes}

InitValidate ==
    /\ disk = NoDir
    /\ handle = Created(version_1_18_0_fw)
    /\ catalog \in Catalogs
    /\ verify = NotVerifying
    /\ keyed = TRUE
    /\ Track = <<>>
    /\ MetaData = NoRows
    /\ MetaDataInteger = NoRows
    /\ PerformanceData = <<>>
    /\ ret = NoRet

NextValidate ==
    \/ BeginVerify
    \/ ValidateMasterList
    \/ ValidateTableInfo
    \/ ValidateIndexList
    \/ ValidateIndexInfo
    \/ ValidateNoMore

SpecValidate == InitValidate /\ [][NextValidate]_vars

\* C20: starting from a catalog that validates against its reference
\* definition, changing exactly one of a table name, a column's name,
\* declared type, nullability, default or primary-key membership, an
\* index's name, uniqueness, creation method or partiality, or an index
\* column's rank, makes the lockstep validation raise DatabaseInconsistency
\* with a message that names the changed object: the validation of the
\* reference catalog returns, that of a changed one never returns, takes
\* its next step until it throws, and the names of the message it throws
\* hold the old or the new name of the object that was changed.
C20_ExactMatch ==
    /\ verify.pc = "ok" => catalog = Reference
    /\ verify.pc = "thrown" => catalog # Reference
    /\ verify.pc = "walking" => ENABLED NextValidate
    /\ \A m \in Changes :
         (catalog = m.catalog /\ verify.pc = "thrown") =>
             /\ verify.thrown.err = "database_inconsistency"
             /\ m.changed \cap verify.thrown.names # {}

\* The default of MetaData.text was changed, the validation passed the two
\* lists of sqlite_master and threw at the column.
C20_Witness ==
    /\ catalog = [Reference EXCEPT ![1].cols[3].default_value = "0"]
    /\ verify.pc = "thrown"
    /\ verify.check = 3
    /\ verify.thrown.what = "wrong default value"
    /\ "text" \in verify.thrown.names

(***************************************************************************)
(* The validation of catalogs that hold an entry less or an entry more     *)
(* than the reference definition.                                          *)
(***************************************************************************)
\* The sequence without its k-th member.
Without(seq, k) == [j \in 1..(Len(seq) - 1) |-> IF j < k THEN seq[j] ELSE seq[j + 1]]

RemovedEntries ==
    {Without(Reference, t) : t \in 1..Len(Reference)}
    \cup {[Reference EXCEPT ![t].cols = Without(@, k)] :
             t \in 1..Len(Reference), k \in 1..3}
    \cup {[Reference EXCEPT ![p[1]].indices = Without(@, p[2])] :
             p \in IndexPlaces}
    \cup {[Reference EXCEPT ![q[1][1]].indices[q[1][2]].cols = Without(@, q[2])] :
             q \in IndexColumnPlaces}

AddedEntries ==
    {Append(Reference,
            [name |-> n, cols |-> << Column("id", "INTEGER", 0, "", 0) >>,
             indices |-> <<>>]) : n \in NewNames}
    \cup {[Reference EXCEPT ![t].cols = Append(@, Column(n, "TEXT", 0, "", 0))] :
             t \in 1..Len(Reference), n \in NewNames}
    \cup {[Reference EXCEPT
             ![t].indices =
                 Append(@, Index(n, 0, "c", 0, << IndexColumn(0, 0, "id") >>))] :
             t \in 1..Len(Reference), n \in NewNames}
    \cup {[Reference EXCEPT
             ![p[1]].indices[p[2]].cols =
                 Append(@, IndexColumn(Len(@), 2, Reference[p[1]].cols[3].col_name))] :
             p \in IndexPlaces}

InitLengths ==
    /\ disk = NoDir
    /\ handle = Created(version_1_18_0_fw)
    /\ catalog \in {Reference} \cup RemovedEntries \cup AddedEntries
    /\ verify = NotVerifying
    /\ keyed = TRUE
    /\ Track = <<>>
    /\ MetaData = NoRows
    /\ MetaDataInteger = NoRows
    /\ PerformanceData = <<>>
    /\ ret = NoRet

SpecLengths == InitLengths /\ [][NextValidate]_vars

\* The name of an entry of a list of the reference definition.
EntryName(check, e) ==
    CASE check.list = "master_list" -> e.item_name
      [] check.list = "table_info" -> e.col_name
      [] check.list = "index_list" -> e.index_name
      [] check.list = "index_info" -> e.col_name

\* C21: lockstep validation of a reference list against an observed list
\* succeeds only when both have the same length: the validation returns
\* only when every observed list is as long as its reference list; the
\* iterator never passes the end of the observed list; where the observed
\* list is exhausted while a reference entry remains the exception thrown
\* reports that entry as missing, and where observed entries remain after
\* the last reference entry validate_no_more throws "more entries than
\* expected"; every exception is a database_inconsistency.
C21_SameLength ==
    /\ verify.pc = "ok" =>
          \A k \in 1..Len(Checks) :
             Len(ListOf(catalog, Checks[k])) = Len(Expected(Checks[k]))
    /\ verify.pc \in {"walking", "thrown"} =>
          LET check == Checks[verify.check]
              observed == ListOf(catalog, check)
              expected == Expected(check)
          IN  /\ verify.iter <= Len(observed) + 1
              /\ verify.iter <= Len(expected) + 1
              /\ verify.pc = "thrown" =>
                    /\ verify.thrown.err = "database_inconsistency"
                    /\ (verify.iter > Len(observed)) =>
                          /\ verify.iter <= Len(expected)
                          /\ verify.thrown.what = "missing"
                          /\ EntryName(check, expected[verify.iter])
                                \in verify.thrown.names
                    /\ (verify.iter > Len(expected)) =>
                          /\ verify.iter <= Len(observed)
                          /\ verify.thrown.what = "more entries than expected"
                          /\ verify.thrown.names = {check.list, check.of}
                    /\ verify.thrown.what = "missing" =>
                          verify.iter > Len(observed)
                    /\ verify.thrown.what = "more entries than expected" =>
                          verify.iter > Len(expected)

\* A column named after every column of the reference definition was added
\* to MetaData: the three validate calls passed and validate_no_more threw.
C21_Witness ==
    /\ catalog = [Reference EXCEPT
                    ![1].cols = Append(@, Column("z_renamed", "TEXT", 0, "", 0))]
    /\ verify.pc = "thrown"
    /\ verify.check = 3
    /\ verify.iter = 4
    /\ verify.thrown.what = "more entries than expected"

\* The last column of MetaData in the order of the names was removed: the
\* observed list was exhausted at the third validate call.
C21_MissingReached ==
    /\ catalog = [Reference EXCEPT ![1].cols = Without(@, 2)]
    /\ verify.pc = "thrown"
    /\ verify.check = 3
    /\ verify.iter = 3
    /\ verify.thrown.what = "missing"
    /\ "type" \in verify.thrown.names

(***************************************************************************)
(* Opening an existing library and the track operations on the handle, for *)
(* a music store whose catalog is the reference definition or differs from *)
(* it in the declared type of MetaData.text.                               *)
(***************************************************************************)
WrongType == [Reference EXCEPT ![1].cols[3].col_type = "BLOB"]

InitOpenUse ==
    /\ disk \in Disks
    /\ handle = [NoHandle EXCEPT !.before = disk]
    /\ catalog \in {Reference, WrongType}
    /\ verify = NotVerifying
    /\ keyed = TRUE
    /\ Track = <<>>
    /\ MetaData = NoRows
    /\ MetaDataInteger = NoRows
    /\ PerformanceData = <<>>
    /\ ret = NoRet

NextOpenUse ==
    \/ OpenExisting
    \/ CreateTrack(T_s3)
    \/ UpdateTrack(1, T_s3_241)
    \/ GetTrack(1)

SpecOpenUse == InitOpenUse /\ [][NextOpenUse]_vars

\* C22: opening an existing library validates the stores against the schema
\* definition of the detected version before the handle accepts any row
\* operation: a library whose catalog does not match the reference schema
\* never yields a handle on which create_track, get_track or update_track
\* run.
C22_ValidatedBeforeUse ==
    ret.op \in {"create_track", "get_track", "update_track"} =>
        catalog = Reference

(***************************************************************************)
(* The set of a list and its validation, for the rows of the catalog query *)
(* returned in any order.                                                  *)
(***************************************************************************)
\* The key of an entry of the list of a check.
KeyOf(check, e) ==
    CASE check.list = "master_list" -> master_list_key(e)
      [] check.list = "table_info" -> table_info_key(e)
      [] check.list = "index_list" -> index_list_key(e)
      [] check.list = "index_info" -> index_info_key(e)

\* The set the constructor of the list of a check builds of the rows.
SetOf(check, rows) ==
    std_set(rows, [k \in 1..Len(rows) |-> KeyOf(check, rows[k])])

\* The validate call of the iter-th entry of the reference definition.
ValidateCall(check, cols, iter) ==
    LET e == Expected(check)[iter] IN
    CASE check.list = "master_list" ->
           validate_master_list(cols, iter, "music", check.of, e.item_name,
                                e.table_name)
      [] check.list = "table_info" ->
           validate_table_info(cols, iter, e.col_name, e.col_type, e.nullable,
                               e.default_value, e.part_of_pk)
      [] check.list = "index_list" ->
           validate_index_list(cols, iter, e.index_name, e.unique,
                               e.creation_method, e.partial_index)
      [] check.list = "index_info" ->
           validate_index_info(cols, iter, e.col_index_id, e.col_name)

\* The walk of one list: the first exception of its validate calls, or
\* what validate_no_more gives after the last.
WalkList(check, cols) ==
    LET n == Len(Expected(check))
        thrown == {i \in 1..n : ValidateCall(check, cols, i).err # "none"}
    IN  IF thrown # {}
        THEN ValidateCall(check, cols,
                          CHOOSE i \in thrown : \A j \in thrown : i <= j)
        ELSE validate_no_more(cols, n + 1, check.list, check.of)

\* The rows in the order p.
Permuted(rows, p) == [k \in 1..Len(rows) |-> rows[p[k]]]

\* One list of the catalog is built of its rows, returned in the order p,
\* and validated.
ValidateRows(k, p) ==
    /\ handle.state = "Open"
    /\ LET check == Checks[k]
           rows == Permuted(ListOf(catalog, check), p)
       IN  ret' = [op |-> "validate_rows", check |-> check, rows |-> rows,
                   cols |-> SetOf(check, rows),
                   out |-> WalkList(check, SetOf(check, rows))]
    /\ UNCHANGED <<disk, handle, schema, tables>>

\* Catalogs SQLite can hold: the names of a list are distinct, and the
\* ranks of the columns of an index are 0, 1, ...
StoredCatalogs ==
    {Reference}
    \cup {m.catalog : m \in RenamedTables \cup ChangedColumns
                            \cup ChangedIndices \cup SwappedRanks}
    \cup RemovedEntries \cup AddedEntries

InitOrders ==
    /\ disk = NoDir
    /\ handle = Created(version_1_18_0_fw)
    /\ catalog \in StoredCatalogs
    /\ verify = NotVerifying
    /\ keyed = TRUE
    /\ Track = <<>>
    /\ MetaData = NoRows
    /\ MetaDataInteger = NoRows
    /\ PerformanceData = <<>>
    /\ ret = NoRet

NextOrders ==
    \E k \in 1..Len(Checks) :
       \E p \in Permutations(1..Len(ListOf(catalog, Checks[k]))) :
          ValidateRows(k, p)

SpecOrders == InitOrders /\ [][NextOrders]_vars

\* C23: the observed catalog entries are walked in ascending order of
\* their key (item name, column name, index name, column rank), so the
\* outcome of validation does not depend on the order in which the catalog
\* query returned the rows: the set holds every row, its keys ascend, and
\* the rows in any other order give the same set and the same outcome.
C23_OrderIndependent ==
    ret.op = "validate_rows" =>
        /\ Len(ret.cols) = Len(ret.rows)
        /\ \A i, j \in 1..Len(ret.cols) :
              i < j => KeyOf(ret.check, ret.cols[i]) < KeyOf(ret.check, ret.cols[j])
        /\ \A q \in Permutations(1..Len(ret.rows)) :
              /\ SetOf(ret.check, Permuted(ret.rows, q)) = ret.cols
              /\ WalkList(ret.check, SetOf(ret.check, Permuted(ret.rows, q)))
                    = ret.out

\* The three columns of MetaData with a changed default were returned in
\* the order type, text, id, and the validation threw at text.
C23_Witness ==
    /\ ret.op = "validate_rows"
    /\ ret.check = Checks[3]
    /\ Len(ret.rows) = 3
    /\ ret.rows[1].col_name = "type"
    /\ ret.rows[2].col_name = "text"
    /\ ret.rows[3].col_name = "id"
    /\ ret.cols[1].col_name = "id"
    /\ ret.out.what = "wrong default value"

(***************************************************************************)
(* The three constructors: opening an existing library, opening a new one  *)
(* in a directory, and opening one in memory.                              *)
(***************************************************************************)
\* schema_creator_validator::create on one store: the Information row of
\* the store states the version.
create(store, v) ==
    [store EXCEPT !.info = SemVer(v.maj, v.min, v.pat, "")]

\* make_temporary_db: two stores in memory, attached to the connection.
make_temporary_db == [dir |-> FALSE, music |-> EmptyStore, perf |-> EmptyStore]

\* el_storage::el_storage(const std::string& directory, semantic_version)
OpenNew(v) ==
    /\ handle.state = "Uninitialized"
    /\ LET a == make_attached_db(disk, FALSE) IN
       /\ disk' = [a.disk EXCEPT !.music = create(@, v), !.perf = create(@, v)]
       /\ handle' = [NoHandle EXCEPT !.state = "Open", !.version = v,
                                     !.before = disk]
       /\ ret' = [op |-> "open_new", version |-> v,
                  calls |-> (IF disk.dir THEN <<>> ELSE <<"create_dir">>)
                            \o <<"attach", "attach", "create">>,
                  attached |-> a.disk]
    /\ UNCHANGED <<schema, tables>>

\* el_storage::el_storage(semantic_version)
OpenInMemory(v) ==
    /\ handle.state = "Uninitialized"
    /\ handle' = [NoHandle EXCEPT !.state = "Open", !.version = v,
                                  !.before = disk]
    /\ ret' = [op |-> "open_in_memory", version |-> v,
               calls |-> <<"attach", "attach", "create">>,
               attached |-> make_temporary_db]
    /\ UNCHANGED <<disk, schema, tables>>

NextCreate ==
    \/ OpenExisting
    \/ \E v \in all_versions : OpenNew(v)
    \/ \E v \in all_versions : OpenInMemory(v)

SpecCreate == InitOpen /\ [][NextCreate]_vars

\* The store holds a library: its Information table states a version.
HoldsLibrary(store) == store.exists /\ store.info # NoVersion

\* C24: Create is only ever invoked on empty stores: opening new and
\* opening in memory invoke Create exactly once, after attaching both
\* stores, and only when neither store already holds a library; opening
\* existing never invokes Create; opening new creates the leaf directory
\* exactly when it was absent.
C24_CreateOnEmptyStores ==
    /\ ret.op \in {"open_new", "open_in_memory"} =>
          /\ SelectSeq(ret.calls, LAMBDA c : c # "create_dir")
                = <<"attach", "attach", "create">>
          /\ ~HoldsLibrary(ret.attached.music)
          /\ ~HoldsLibrary(ret.attached.perf)
    /\ ret.op = "open_new" =>
          /\ disk.dir
          /\ ("create_dir" \in {ret.calls[k] : k \in 1..Len(ret.calls)})
                <=> ~handle.before.dir
    /\ (Opened /\ ret.op = "none") =>
          /\ disk.music.info = handle.before.music.info
          /\ disk.perf.info = handle.before.perf.info

(***************************************************************************)
(* The track and performance data operations on a library of either        *)
(* variant of 1.18.0.                                                      *)
(***************************************************************************)
InitVariants ==
    /\ disk = NoDir
    /\ handle \in {Created(version_1_18_0_fw), Created(version_1_18_0_ep)}
    /\ catalog = Reference
    /\ verify = NotVerifying
    /\ keyed = TRUE
    /\ Track = <<>>
    /\ MetaData = NoRows
    /\ MetaDataInteger = NoRows
    /\ PerformanceData = <<>>
    /\ ret = NoRet

NextVariants ==
    \/ \E x \in {T_locked, T_s3} : CreateTrack(x)
    \/ \E y \in {T_full, NoTrack} : UpdateTrack(1, y)
    \/ GetTrack(1)
    \/ \E r \in {P_analyzed, P_beats} : SetPerformanceData(1, r)
    \/ GetPerformanceData(1)

SpecVariants == InitVariants /\ [][NextVariants]_vars

\* C25: under the (major, minor, patch) ordering of versions, both variants
\* of 1.18.0 select the 1.18.0 SQL shape: on a library of either variant
\* create_track and update_track write isBeatGridLocked and get_track
\* returns it, and set_performance_data and get_performance_data write and
\* return the three flags (Serato, Rekordbox, Traktor).
C25_BothVariants ==
    /\ handle.version \in {version_1_18_0_fw, version_1_18_0_ep}
    /\ ret.op = "create_track" =>
          /\ TrackRows(ret.id)[1].col["isBeatGridLocked"]
                = ret.arg.is_beatgrid_locked
          /\ get_track(ret.id).value.is_beatgrid_locked
                = ret.arg.is_beatgrid_locked
    /\ (ret.op = "update_track" /\ Len(ret.old) = 1) =>
          /\ TrackRows(ret.id)[1].col["isBeatGridLocked"]
                = ret.arg.is_beatgrid_locked
          /\ get_track(ret.id).value.is_beatgrid_locked
                = ret.arg.is_beatgrid_locked
    /\ ret.op = "get_track" /\ ret.out.kind = "ok" =>
          ret.out.value.is_beatgrid_locked
              = TrackRows(ret.id)[1].col["isBeatGridLocked"]
    /\ ret.op = "set_performance_data" =>
          LET c == PerfRows(ret.id)[1].col
              got == get_performance_data(ret.id).value
          IN  /\ c["hasSeratoValues"] = <<ret.arg.has_serato_values>>
              /\ c["hasRekordboxValues"] = <<ret.arg.has_rekordbox_values>>
              /\ c["hasTraktorValues"] = <<ret.arg.has_traktor_values>>
              /\ got.has_serato_values = ret.arg.has_serato_values
              /\ got.has_rekordbox_values = ret.arg.has_rekordbox_values
              /\ got.has_traktor_values = ret.arg.has_traktor_values

\* On a library of the desktop variant a track was created with the lock,
\* and the row holds it.
C25_Witness ==
    /\ handle.version = version_1_18_0_ep
    /\ ret.op = "create_track"
    /\ ret.arg = T_locked
    /\ TrackRows(ret.id)[1].col["isBeatGridLocked"] = "12"
    /\ get_track(ret.id).value.is_beatgrid_locked = "12"

(***************************************************************************)
(* The validation of a list one of whose rows differs in an attribute the  *)
(* validate helpers do not read.                                           *)
(***************************************************************************)
\* The attribute of the rows of a list that no validate call names, and
\* the values it is given.
UnreadAttribute(check) ==
    CASE check.list = "master_list" -> "table_name"
      [] check.list = "table_info" -> "col_id"
      [] check.list = "index_list" -> "index_id"
      [] check.list = "index_info" -> "col_table_id"

UnreadValues(check) ==
    IF check.list = "master_list"
    THEN {"MetaData", "MetaDataInteger"} \cup NewNames
    ELSE 0..(MaxRank + 1)

\* One list of the catalog is validated, as the catalog gives it and with
\* the attribute of its i-th row set to x.
ValidateChanged(k, i, x) ==
    /\ handle.state = "Open"
    /\ LET check == Checks[k]
           rows == ListOf(catalog, check)
           changed == [rows EXCEPT ![i][UnreadAttribute(check)] = x]
       IN  /\ i \in 1..Len(rows)
           /\ rows[i][UnreadAttribute(check)] # x
           /\ ret' = [op |-> "validate_changed", check |-> check,
                      rows |-> rows, changed |-> changed,
                      was |-> WalkList(check, SetOf(check, rows)),
                      out |-> WalkList(check, SetOf(check, changed))]
    /\ UNCHANGED <<disk, handle, schema, tables>>

InitUnread ==
    /\ disk = NoDir
    /\ handle = Created(version_1_18_0_fw)
    /\ catalog \in {Reference, WrongType}
                   \cup {m.catalog : m \in RenamedTables \cup SwappedRanks}
    /\ verify = NotVerifying
    /\ keyed = TRUE
    /\ Track = <<>>
    /\ MetaData = NoRows
    /\ MetaDataInteger = NoRows
    /\ PerformanceData = <<>>
    /\ ret = NoRet

NextUnread ==
    \E k \in 1..Len(Checks), i \in 1..3 :
       \E x \in UnreadValues(Checks[k]) : ValidateChanged(k, i, x)

SpecUnread == InitUnread /\ [][NextUnread]_vars

\* C26: the validate helpers compare only a fixed subset of the catalog
\* attributes: two lists that differ only in a column's position (col_id),
\* an index's id, an index column's table-column id (col_table_id) or the
\* table a master-list item relates to (table_name) get the same outcome:
\* none throws, or both throw a database_inconsistency of the same kind
\* (and of the same message, but that the message of a master-list item in
\* wrong order quotes the item's table_name); so a list of the reference
\* catalog with such an attribute changed still validates.
C26_UnreadAttributes ==
    ret.op = "validate_changed" =>
        /\ ret.changed # ret.rows
        /\ ret.out.err = ret.was.err
        /\ ret.out.what = ret.was.what
        /\ ret.check.list # "master_list" => ret.out = ret.was
        /\ catalog = Reference => ret.out = NotThrown

\* The first column of the autoindex of MetaData was given another
\* table-column id, and the list validates as before.
C26_Witness ==
    /\ catalog = Reference
    /\ ret.op = "validate_changed"
    /\ ret.check = Checks[6]
    /\ ret.rows[1].col_table_id = 0
    /\ ret.changed[1].col_table_id = 2
    /\ ret.out = NotThrown

\* C27: update_track(id, y) on an id that has no Track row raises no
\* error, creates no row and leaves every table unchanged; a following
\* get_track(id) still raises TrackDeleted.
C27_UpdateWithoutRow ==
    [][\A id \in TrackIds :
         (ret'.op = "update_track" /\ ret'.id = id /\ ret'.old = <<>>) =>
             /\ TrackRows(id) = <<>>
             /\ UNCHANGED <<disk, handle, schema, tables>>
             /\ get_track(id)' = Err("track_deleted", NoTrack)]_vars

\* The table holds the row of another track, and the track updated has
\* none.
C27_Witness ==
    /\ ret.op = "update_track"
    /\ ret.id = 2
    /\ ret.old = <<>>
    /\ ret.arg = T_full
    /\ Len(Track) = 1
    /\ get_track(1).kind = "ok"
    /\ get_track(2) = Err("track_deleted", NoTrack)

(***************************************************************************)
(* Every write and every read of the facade on a created library that      *)
(* holds the rows of several tracks in every table.                        *)
(***************************************************************************)
\* The track ids the operations are called with.
FrameIds == {1, 2}

InitFrame ==
    /\ disk = NoDir
    /\ handle = Created(version_1_18_0_fw)
    /\ catalog = Reference
    /\ verify = NotVerifying
    /\ keyed = TRUE
    /\ Track = <<>>
    /\ MetaData = [id \in FrameIds |-> <<>>]
    /\ MetaDataInteger = [id \in FrameIds |-> <<>>]
    /\ PerformanceData = <<>>
    /\ ret = NoRet

NextFrame ==
    \/ CreateTrack(T_s3)
    \/ UpdateTrack(1, T_s3_241)
    \/ GetTrack(1)
    \/ \E id \in FrameIds : SetMetaData(id, "title", <<"x">>)
    \/ \E id \in FrameIds : SetMetaDataBulk(id, M_s4)
    \/ GetMetaData(2, "title")
    \/ GetAllMetaData(2)
    \/ \E id \in FrameIds : SetMetaDataInteger(id, "rating", <<7>>)
    \/ \E id \in FrameIds : SetMetaDataIntegerBulk(id, N_rated)
    \/ GetMetaDataInteger(2, "rating")
    \/ GetAllMetaDataInteger(2)
    \/ \E id \in FrameIds : SetPerformanceData(id, P_analyzed)
    \/ \E id \in FrameIds : ClearPerformanceData(id)
    \/ GetPerformanceData(2)

SpecFrame == InitFrame /\ [][NextFrame]_vars

\* The rows of every track but one, in the four tables, are what they were.
OtherIdsKept(id) ==
    /\ SelectSeq(Track', LAMBDA r : r.id # <<id>>) =
           SelectSeq(Track, LAMBDA r : r.id # <<id>>)
    /\ \A j \in FrameIds \ {id} :
          /\ MetaData'[j] = MetaData[j]
          /\ MetaDataInteger'[j] = MetaDataInteger[j]
    /\ SelectSeq(PerformanceData', LAMBDA q : q.id # id) =
           SelectSeq(PerformanceData, LAMBDA q : q.id # id)

\* The rows of the slots of a track but one are what they were.
OtherTypesKept(after, before, type) ==
    SelectSeq(after, LAMBDA q : q.type # type) =
        SelectSeq(before, LAMBDA q : q.type # type)

\* C28: every write of the facade addressed to a track id (update_track,
\* the per-slot and bulk metadata writes, set_performance_data,
\* clear_performance_data) leaves the rows of every other track id in every
\* table as they were, and leaves the tables it does not address as they
\* were; a per-slot write leaves every other slot of the same track as it
\* was; every get leaves all tables as they were.
C28_Frame ==
    [][\A id \in FrameIds :
         ret'.id = id =>
           /\ ret'.op \in {"update_track", "set_meta_data",
                           "set_meta_data_bulk", "set_meta_data_integer",
                           "set_meta_data_integer_bulk",
                           "set_performance_data",
                           "clear_performance_data"} => OtherIdsKept(id)
           /\ ret'.op = "update_track" =>
                UNCHANGED <<MetaData, MetaDataInteger, PerformanceData>>
           /\ ret'.op \in {"set_meta_data", "set_meta_data_bulk"} =>
                UNCHANGED <<Track, MetaDataInteger, PerformanceData>>
           /\ ret'.op \in {"set_meta_data_integer",
                           "set_meta_data_integer_bulk"} =>
                UNCHANGED <<Track, MetaData, PerformanceData>>
           /\ ret'.op \in {"set_performance_data",
                           "clear_performance_data"} =>
                UNCHANGED <<Track, MetaData, MetaDataInteger>>
           /\ ret'.op = "set_meta_data" =>
                OtherTypesKept(MetaData'[id], MetaData[id], "title")
           /\ ret'.op = "set_meta_data_integer" =>
                OtherTypesKept(MetaDataInteger'[id], MetaDataInteger[id],
                               "rating")
           /\ ret'.op \in {"get_track", "get_meta_data",
                           "get_all_meta_data", "get_meta_data_integer",
                           "get_all_meta_data_integer",
                           "get_performance_data"} =>
                UNCHANGED tables]_vars

\* Every table holds the rows of two tracks, and the write is to one of
\* them.
C28_RowsOfTwoTracks ==
    /\ Len(Track) = 2
    /\ Len(MetaData[1]) > 1 /\ Len(MetaData[2]) > 1
    /\ Len(MetaDataInteger[1]) > 1 /\ Len(MetaDataInteger[2]) > 1
    /\ Len(PerformanceData) = 2

C28_Witness ==
    /\ C28_RowsOfTwoTracks
    /\ ret.op = "set_performance_data"
    /\ ret.id = 1
    /\ ret.had = 1

\* C29: the metadata and performance-data writes do not check that the
\* track exists.  set_meta_data, set_meta_data_integer and
\* set_performance_data on an id that has no Track row store their row, and
\* get_track of that id still raises TrackDeleted; create_track creates no
\* MetaData, MetaDataInteger or PerformanceData row.
C29_WritesWithoutTrack ==
    [][\A id \in FrameIds :
         ret'.id = id =>
           /\ (ret'.op = "set_meta_data" /\ TrackRows(id) = <<>>) =>
                /\ get_meta_data(id, "title")' = Ok(ret'.arg)
                /\ MetaData'[id] # <<>>
                /\ get_track(id)' = Err("track_deleted", NoTrack)
           /\ (ret'.op = "set_meta_data_integer" /\ TrackRows(id) = <<>>) =>
                /\ get_meta_data_integer(id, "rating")' = Ok(ret'.arg)
                /\ MetaDataInteger'[id] # <<>>
                /\ get_track(id)' = Err("track_deleted", NoTrack)
           /\ (ret'.op = "set_performance_data" /\ TrackRows(id) = <<>>) =>
                /\ Len(PerfRows(id)') = 1
                /\ get_performance_data(id)'.kind = "ok"
                /\ get_track(id)' = Err("track_deleted", NoTrack)
           /\ ret'.op = "create_track" =>
                UNCHANGED <<MetaData, MetaDataInteger, PerformanceData>>]_vars

\* The three tables hold rows of track 2, which has no Track row, beside a
\* track that has one.
C29_Witness ==
    /\ get_track(1).kind = "ok"
    /\ get_track(2) = Err("track_deleted", NoTrack)
    /\ get_meta_data(2, "title") = Ok(<<"x">>)
    /\ get_meta_data_integer(2, "rating") = Ok(<<7>>)
    /\ Len(PerfRows(2)) = 1
    /\ ret.op = "set_performance_data"
    /\ ret.id = 2

\* C30: the writes addressed by key are idempotent on a created library:
\* applying the bulk metadata write, the per-slot metadata write,
\* set_performance_data or clear_performance_data that was just applied
\* once more leaves exactly the stored rows it left the first time.
C30_Idempotent ==
    /\ ret.op = "set_meta_data" =>
          Replace(MetaData[ret.id], set_meta_data_row(ret.type, ret.arg)) =
              MetaData[ret.id]
    /\ ret.op = "set_meta_data_bulk" =>
          ReplaceAll(MetaData[ret.id], set_meta_data_rows(ret.arg)) =
              MetaData[ret.id]
    /\ ret.op = "set_meta_data_integer" =>
          Replace(MetaDataInteger[ret.id],
                  set_meta_data_integer_row(ret.type, ret.arg)) =
              MetaDataInteger[ret.id]
    /\ ret.op = "set_meta_data_integer_bulk" =>
          ReplaceAll(MetaDataInteger[ret.id],
                     set_meta_data_integer_rows(ret.arg)) =
              MetaDataInteger[ret.id]
    /\ ret.op = "set_performance_data" =>
          ReplaceById(PerformanceData,
                      [id |-> ret.id,
                       col |-> PerfAssign(
                                 set_performance_data_stmt(handle.version,
                                                           ret.arg))]) =
              PerformanceData
    /\ ret.op = "clear_performance_data" =>
          clear_performance_data(PerformanceData, ret.id) = PerformanceData

\* The bulk write was applied to the rows that the same bulk write had
\* stored, beside the rows of another track.
C30_Witness ==
    /\ ret.op = "set_meta_data_bulk"
    /\ ret.id = 1
    /\ ret.old # <<>>
    /\ ret.old = MetaData[1]
    /\ MetaData[2] # <<>>
    /\ Len(PerformanceData) = 2

=============================================================================
